---------------------------- MODULE Spec2Model ----------------------------
(***************************************************************************)
(* State-machine model of the sports-department backend (src/index.js,     *)
(* first copy of the server, lines 1-2282, and src/config/database.js).    *)
(*                                                                         *)
(* The database tables are sets of rows.  A request is a record that moves *)
(* through the segments of its handler: "start" is the synchronous part up *)
(* to pool.getConnection(), "conn" waits for the pool, "q1", "q2", ... are *)
(* the awaited queries, each executed atomically by the database together  *)
(* with the synchronous code that follows it up to the next await.         *)
(*                                                                         *)
(* The tables have the columns the handlers read and write.  Constraints  *)
(* (unique keys, foreign keys) are those of src/config/database.js; the    *)
(* table student_links, which database.js does not create, follows the     *)
(* data model of the specification.  The TIMESTAMP columns createdAt and   *)
(* updatedAt hold seconds of the server clock now; a row carries them      *)
(* where a handler orders by them.                                         *)
(*                                                                         *)
(* Text values are sequences of one-character strings so that trim(),      *)
(* parseInt() and the e-mail pattern are computed, not assumed.            *)
(***************************************************************************)
EXTENDS Integers, Sequences, FiniteSets, TLC

VARIABLES
    managers,     \* rows of table managers
    teams,        \* rows of table teams
    sports,       \* rows of table sports
    students,     \* rows of table students
    coaches,      \* rows of table coaches
    selections,   \* rows of table student_selections
    links,        \* rows of table student_links
    eventImages,  \* rows of table event_images
    notices,      \* rows of table notices
    extraSchema,  \* what the database has beyond the tables of initializeDatabase
    now,          \* CURRENT_TIMESTAMP of the database server, in seconds
    teamImages,   \* the array of records in data/team-images.json
    teamImagesFile, \* whether data/team-images.json exists
    files,        \* names of the files present in the uploads directory
    nextId,       \* per table: the next AUTO_INCREMENT value
    nextFile,     \* counter standing for the Date.now()-random file suffix
    pool,         \* number of pool connections checked out
    reqs          \* the requests received so far, in order of arrival

dbvars == <<managers, teams, sports, students, coaches, selections, links,
            eventImages, notices, extraSchema, now>>
fsvars == <<teamImages, teamImagesFile, files, nextFile>>
vars == <<managers, teams, sports, students, coaches, selections, links,
          eventImages, notices, extraSchema, now, teamImages, teamImagesFile, files,
          nextFile, nextId, pool, reqs>>

----------------------------------------------------------------------------
(* Bounds of the model *)

\* Most requests received in one behaviour.
MaxReqs == 2

\* Highest row id a request may name in its path or body.
MaxId == 2

\* Last second the clock of the database server reaches.
MaxNow == 3

----------------------------------------------------------------------------
(* Text *)

\* JavaScript null / undefined of a body field.
Null == <<"NULL">>

\* JavaScript falsiness of a text field: undefined, null or "".
Falsy(s) == s = Null \/ s = <<>>

\* White space of String.prototype.trim, of parseInt and of \s: TAB, LF, VT,
\* FF, CR, space and the Unicode space separators and line terminators.  A
\* code point outside ASCII, and VT, is written by its name "U+XXXX".
IsSpace(c) ==
    c \in {" ", "\t", "\n", "\f", "\r", "U+000B", "U+00A0", "U+1680", "U+2000",
           "U+2001", "U+2002", "U+2003", "U+2004", "U+2005", "U+2006",
           "U+2007", "U+2008", "U+2009", "U+200A", "U+2028", "U+2029",
           "U+202F", "U+205F", "U+3000", "U+FEFF"}

RECURSIVE LTrim(_)
LTrim(s) == IF s # <<>> /\ IsSpace(Head(s)) THEN LTrim(Tail(s)) ELSE s

RECURSIVE RTrim(_)
RTrim(s) == IF s # <<>> /\ IsSpace(s[Len(s)]) THEN RTrim(SubSeq(s, 1, Len(s) - 1)) ELSE s

\* String.prototype.trim
Trim(s) == RTrim(LTrim(s))

\* value ? value.trim() : null
TrimOrNull(s) == IF Falsy(s) THEN Null ELSE Trim(s)

\* The characters of the model's texts: the printable characters of ASCII
\* but the grave accent, the white space of IsSpace, the letters of Latin-1 that are a letter of
\* ASCII with an accent, the capital I with a dot, the combining dot above,
\* the Kelvin sign and the Angstrom sign.
Chars ==
    {" ", "!", "\"", "#", "$", "%", "&", "'", "(", ")", "*", "+", ",", "-", ".", "/",
     "0", "1", "2", "3", "4", "5", "6", "7", "8", "9", ":", ";", "<", "=", ">", "?",
     "@", "A", "B", "C", "D", "E", "F", "G", "H", "I", "J", "K", "L", "M", "N", "O",
     "P", "Q", "R", "S", "T", "U", "V", "W", "X", "Y", "Z", "[", "\\", "]", "^", "_",
     "a", "b", "c", "d", "e", "f", "g", "h", "i", "j", "k", "l", "m", "n", "o",
     "p", "q", "r", "s", "t", "u", "v", "w", "x", "y", "z", "{", "|", "}", "~"}
    \cup {"\t", "\n", "\f", "\r", "U+000B", "U+00A0", "U+1680", "U+2000",
          "U+2001", "U+2002", "U+2003", "U+2004", "U+2005", "U+2006",
          "U+2007", "U+2008", "U+2009", "U+200A", "U+2028", "U+2029",
          "U+202F", "U+205F", "U+3000", "U+FEFF"}
    \cup {"U+00C0", "U+00C1", "U+00C2", "U+00C3", "U+00C4", "U+00C5", "U+00C7",
          "U+00C8", "U+00C9", "U+00CA", "U+00CB", "U+00CC", "U+00CD", "U+00CE",
          "U+00CF", "U+00D1", "U+00D2", "U+00D3", "U+00D4", "U+00D5", "U+00D6",
          "U+00D9", "U+00DA", "U+00DB", "U+00DC", "U+00DD",
          "U+00E0", "U+00E1", "U+00E2", "U+00E3", "U+00E4", "U+00E5", "U+00E7",
          "U+00E8", "U+00E9", "U+00EA", "U+00EB", "U+00EC", "U+00ED", "U+00EE",
          "U+00EF", "U+00F1", "U+00F2", "U+00F3", "U+00F4", "U+00F5", "U+00F6",
          "U+00F9", "U+00FA", "U+00FB", "U+00FC", "U+00FD", "U+00FF"}
    \cup {"U+0130", "U+0307", "U+212A", "U+212B"}

\* toLowerCase() of each character of Chars, as a text: a capital letter
\* maps to its small letter, the capital I with a dot to i and the combining
\* dot, the Kelvin sign to k, the Angstrom sign to the a with a ring; every
\* other character stays.
LowerTable ==
    LET upper == <<"A", "B", "C", "D", "E", "F", "G", "H", "I", "J", "K", "L", "M",
                   "N", "O", "P", "Q", "R", "S", "T", "U", "V", "W", "X", "Y", "Z",
                   "U+00C0", "U+00C1", "U+00C2", "U+00C3", "U+00C4", "U+00C5",
                   "U+00C7", "U+00C8", "U+00C9", "U+00CA", "U+00CB", "U+00CC",
                   "U+00CD", "U+00CE", "U+00CF", "U+00D1", "U+00D2", "U+00D3",
                   "U+00D4", "U+00D5", "U+00D6", "U+00D9", "U+00DA", "U+00DB",
                   "U+00DC", "U+00DD", "U+212A", "U+212B">>
        lower == <<"a", "b", "c", "d", "e", "f", "g", "h", "i", "j", "k", "l", "m",
                   "n", "o", "p", "q", "r", "s", "t", "u", "v", "w", "x", "y", "z",
                   "U+00E0", "U+00E1", "U+00E2", "U+00E3", "U+00E4", "U+00E5",
                   "U+00E7", "U+00E8", "U+00E9", "U+00EA", "U+00EB", "U+00EC",
                   "U+00ED", "U+00EE", "U+00EF", "U+00F1", "U+00F2", "U+00F3",
                   "U+00F4", "U+00F5", "U+00F6", "U+00F9", "U+00FA", "U+00FB",
                   "U+00FC", "U+00FD", "k", "U+00E5">>
    IN  [c \in Chars |->
            IF \E k \in DOMAIN upper : upper[k] = c
            THEN <<lower[CHOOSE k \in DOMAIN upper : upper[k] = c]>>
            ELSE IF c = "U+0130" THEN <<"i", "U+0307">> ELSE <<c>>]

\* toLowerCase() of one character.
Lower(c) == LowerTable[c]

\* String.prototype.toLowerCase
RECURSIVE ToLowerCase(_)
ToLowerCase(s) ==
    IF s = <<>> THEN <<>> ELSE Lower(Head(s)) \o ToLowerCase(Tail(s))

\* The primary weight the tables' collation utf8mb4_unicode_ci gives each
\* character of Chars, written as the character that carries the weight (as
\* a text, empty for a character without primary weight): a letter has the
\* weight of its small letter without accent, the space separators have the
\* weight of U+0020, U+FEFF and the combining dot have none.
PrimaryTable ==
    LET accented == <<"U+00E0", "U+00E1", "U+00E2", "U+00E3", "U+00E4", "U+00E5",
                      "U+00E7", "U+00E8", "U+00E9", "U+00EA", "U+00EB", "U+00EC",
                      "U+00ED", "U+00EE", "U+00EF", "U+00F1", "U+00F2", "U+00F3",
                      "U+00F4", "U+00F5", "U+00F6", "U+00F9", "U+00FA", "U+00FB",
                      "U+00FC", "U+00FD", "U+00FF">>
        base == <<"a", "a", "a", "a", "a", "a",
                  "c", "e", "e", "e", "e", "i",
                  "i", "i", "i", "n", "o", "o",
                  "o", "o", "o", "u", "u", "u",
                  "u", "y", "y">>
        blank == {" ", "U+00A0", "U+1680", "U+2000", "U+2001", "U+2002", "U+2003",
                  "U+2004", "U+2005", "U+2006", "U+2007", "U+2008", "U+2009",
                  "U+200A", "U+202F", "U+205F", "U+3000"}
    IN  [c \in Chars |->
            LET l == Lower(c)[1] IN
            IF l \in {"U+FEFF", "U+0307"} THEN <<>>
            ELSE IF l \in blank THEN <<" ">>
            ELSE IF \E k \in DOMAIN accented : accented[k] = l
                 THEN <<base[CHOOSE k \in DOMAIN accented : accented[k] = l]>>
            ELSE <<l>>]

\* The key under which the collation compares a VARCHAR value: the primary
\* weights of its characters; the collation is PAD SPACE, so the weights of
\* U+0020 at the end of the key are dropped.
CollationKey(s) ==
    LET RECURSIVE Weights(_)
        Weights(u) == IF u = <<>> THEN <<>>
                      ELSE PrimaryTable[Head(u)] \o Weights(Tail(u))
        w == Weights(s)
    IN  SubSeq(w, 1, CHOOSE n \in 0..Len(w) :
                         /\ n = 0 \/ w[n] # " "
                         /\ \A k \in (n + 1)..Len(w) : w[k] = " ")

\* a = b for two VARCHAR values under the tables' collation; NULL compares
\* equal to nothing.
DbEq(a, b) == a # Null /\ b # Null /\ CollationKey(a) = CollationKey(b)

\* Value of a digit of parseInt: 0-9, and a-z in either case from 10 on.
DigitVal(c) == CASE c = "0" -> 0 [] c = "1" -> 1 [] c = "2" -> 2 [] c = "3" -> 3
                 [] c = "4" -> 4 [] c = "5" -> 5 [] c = "6" -> 6 [] c = "7" -> 7
                 [] c = "8" -> 8 [] c = "9" -> 9
                 [] c \in {"a", "A"} -> 10 [] c \in {"b", "B"} -> 11
                 [] c \in {"c", "C"} -> 12 [] c \in {"d", "D"} -> 13
                 [] c \in {"e", "E"} -> 14 [] c \in {"f", "F"} -> 15
                 [] OTHER -> 36

RECURSIVE DigitPrefix(_, _, _)
DigitPrefix(s, radix, acc) ==
    IF s # <<>> /\ DigitVal(Head(s)) < radix
    THEN DigitPrefix(Tail(s), radix, radix * acc + DigitVal(Head(s)))
    ELSE acc

\* parseInt(text), called without radix: <<n>> for a number, <<>> for NaN.
\* Leading white space and a sign are skipped; a prefix 0x or 0X makes the
\* digits hexadecimal.
ParseInt(s) ==
    LET t == IF s = Null THEN <<>> ELSE LTrim(s)
        neg == t # <<>> /\ Head(t) = "-"
        u == IF t # <<>> /\ Head(t) \in {"-", "+"} THEN Tail(t) ELSE t
        hex == Len(u) >= 2 /\ u[1] = "0" /\ u[2] \in {"x", "X"}
        v == IF hex THEN SubSeq(u, 3, Len(u)) ELSE u
        radix == IF hex THEN 16 ELSE 10
    IN  IF v = <<>> \/ DigitVal(Head(v)) >= radix THEN <<>>
        ELSE <<(IF neg THEN -1 ELSE 1) * DigitPrefix(v, radix, 0)>>

\* A run of one or more characters none of which is white space or "@".
NoSpaceAt(s) == s # <<>> /\ \A k \in 1..Len(s) : ~IsSpace(s[k]) /\ s[k] # "@"

\* emailRegex.test(email) for /^[^\s@]+@[^\s@]+\.[^\s@]+$/
EmailOk(s) ==
    \E i \in 1..Len(s), j \in 1..Len(s) :
        /\ i < j
        /\ s[i] = "@"
        /\ s[j] = "."
        /\ NoSpaceAt(SubSeq(s, 1, i - 1))
        /\ NoSpaceAt(SubSeq(s, i + 1, j - 1))
        /\ NoSpaceAt(SubSeq(s, j + 1, Len(s)))

----------------------------------------------------------------------------
(* Dates: new Date(birthDate), new Date(), getFullYear/getMonth/getDate *)

\* Days of a month of the Gregorian calendar.
DaysIn(y, m) ==
    IF m = 2
    THEN (IF (y % 4 = 0 /\ y % 100 # 0) \/ y % 400 = 0 THEN 29 ELSE 28)
    ELSE IF m \in {4, 6, 9, 11} THEN 30 ELSE 31

\* The calendar day before <<y, m, d>>.
PrevDay(date) ==
    LET y == date[1]  m == date[2]  d == date[3] IN
    IF d > 1 THEN <<y, m, d - 1>>
    ELSE IF m > 1 THEN <<y, m - 1, DaysIn(y, m - 1)>>
    ELSE <<y - 1, 12, 31>>

\* new Date("YYYY-MM-DD") is midnight UTC of that day; getFullYear, getMonth
\* and getDate read it in the server's time zone, where it is still the day
\* before when the zone is west of UTC.
LocalDate(date, tz) == IF tz = "west" THEN PrevDay(date) ELSE date

\* let age = today.getFullYear() - birth.getFullYear(); ... age--
Age(birthDate, today, tz) ==
    LET birth == LocalDate(birthDate, tz)
        monthDiff == today[2] - birth[2]
    IN IF monthDiff < 0 \/ (monthDiff = 0 /\ today[3] < birth[3])
       THEN today[1] - birth[1] - 1
       ELSE today[1] - birth[1]

\* A DATE column comes back from the driver as a Date at midnight of that
\* day in the server's zone, and res.json writes it as a UTC timestamp: east
\* of UTC its calendar date is the day before.
JsonDate(date, tz) == IF tz = "east" THEN PrevDay(date) ELSE date

\* A row of students as res.json writes it.
StudentJson(s, tz) == [s EXCEPT !.birthDate = JsonDate(@, tz)]

\* A row of notices as res.json writes it.
NoticeJson(x, tz) == [x EXCEPT !.noticeDate = JsonDate(@, tz)]

----------------------------------------------------------------------------
(* Requests *)

ConnectionLimit == 5

\* The tables, and "team_images" for the Date.now() ids of data/team-images.json.
Tables == {"managers", "teams", "sports", "students", "coaches",
           "student_selections", "student_links", "event_images", "notices",
           "team_images"}

\* The table and the columns the handlers name and initializeDatabase does
\* not create (no statement under src/ adds them): a database has them only
\* when it was prepared before the server started.
ExtraSchema == {"teams.color", "students.linkToken", "student_links"}

\* A request before its handler has run.  Fields a route does not read stay
\* at these values (0 stands for an absent id, Null for an absent text).
\* birthDate and noticeDate are date-only ISO texts "YYYY-MM-DD", kept as
\* <<year, month, day>>; result holds the rows a GET answers with;
\* today is the server's local calendar date when the handler reads the clock
\* and tz the side of UTC the server's time zone lies on; fsError tells that
\* the calls of fs.unlinkSync the request makes throw (EPERM, EBUSY).
BlankReq ==
    [op |-> "", pc |-> "start", status |-> 0, body |-> "",
     conn |-> "none", rel |-> 0, err |-> "",
     id |-> 0, name |-> Null, department |-> Null, sport |-> Null,
     contact |-> Null, email |-> Null, studentCount |-> Null, teamId |-> 0,
     managerId |-> 0, studentId |-> 0, prn |-> Null, birthDate |-> Null,
     today |-> <<2026, 1, 1>>, tz |-> "utc",
     token |-> Null, flag |-> "none", description |-> Null, color |-> Null,
     title |-> Null, noticeDate |-> Null, displayOrder |-> Null,
     file |-> [present |-> FALSE, ext |-> <<>>, mime |-> <<>>, big |-> FALSE],
     file2 |-> [present |-> FALSE, ext |-> <<>>, mime |-> <<>>, big |-> FALSE],
     imageUrl |-> 0, stored |-> 0, stored2 |-> 0,
     insertId |-> 0, found |-> FALSE, old |-> 0, old2 |-> 0, lmanager |-> 0,
     result |-> {}, fsError |-> FALSE]

InFlight(i) == i \in DOMAIN reqs /\ reqs[i].status = 0

\* Request i is in the handler of route op and not waiting for the pool.
Runs(i, op) == InFlight(i) /\ reqs[i].op = op /\ reqs[i].pc # "conn"

\* A request arrives and is dispatched to its route.
Arrive(r) ==
    /\ Len(reqs) < MaxReqs
    /\ reqs' = Append(reqs, r)
    /\ UNCHANGED <<dbvars, fsvars, nextId, pool>>

\* A second passes on the clock of the database server.
Tick ==
    /\ now < MaxNow
    /\ now' = now + 1
    /\ UNCHANGED <<managers, teams, sports, students, links, coaches, selections,
                   eventImages, notices, extraSchema, fsvars, nextId, pool, reqs>>

\* res.status(st).json({error|message: msg}) with nrel calls of conn.release().
Answer(r, st, msg, nrel) ==
    [r EXCEPT !.pc = "done", !.status = st, !.body = msg,
              !.rel = @ + nrel,
              !.conn = IF nrel > 0 /\ @ = "held" THEN "released" ELSE @]

\* The pool after request r was answered with nrel calls of conn.release().
PoolAfter(r, nrel) == IF nrel > 0 /\ r.conn = "held" THEN pool - 1 ELSE pool

\* The same over a pool without connectionLimit.
AcquireUnbounded(i) ==
    /\ InFlight(i)
    /\ reqs[i].pc = "conn"
    /\ reqs[i].op # "connection test"
    /\ pool' = pool + 1
    /\ reqs' = [reqs EXCEPT ![i] = [@ EXCEPT !.pc = "q1", !.conn = "held"]]
    /\ UNCHANGED <<dbvars, fsvars, nextId>>

\* conn = await pool.getConnection(): granted while the pool has a free
\* connection.  (The start-up connection test takes its connection in
\* ConnectionTest.)
Acquire(i) ==
    /\ InFlight(i)
    /\ reqs[i].pc = "conn"
    /\ reqs[i].op # "connection test"
    /\ pool < ConnectionLimit
    /\ pool' = pool + 1
    /\ reqs' = [reqs EXCEPT ![i] = [@ EXCEPT !.pc = "q1", !.conn = "held"]]
    /\ UNCHANGED <<dbvars, fsvars, nextId>>

\* The request record and the pool after the handler's answer.
Reply(i, st, msg, nrel) ==
    /\ reqs' = [reqs EXCEPT ![i] = Answer(reqs[i], st, msg, nrel)]
    /\ pool' = PoolAfter(reqs[i], nrel)

\* The answer of a catch block to the database error with the given error.code.
Caught(i, code, st, msg, nrel) ==
    /\ reqs' = [reqs EXCEPT ![i] = Answer([reqs[i] EXCEPT !.err = code], st, msg, nrel)]
    /\ pool' = PoolAfter(reqs[i], nrel)

\* res.json(rows[0]) of a GET by id, or its 404 when the SELECT gave no row.
Fetched(i, rows, msg) ==
    /\ reqs' = [reqs EXCEPT ![i] =
                  IF rows = {} THEN Answer(reqs[i], 404, msg, 1)
                  ELSE Answer([reqs[i] EXCEPT !.result = rows], 200, "row", 1)]
    /\ pool' = PoolAfter(reqs[i], 1)

\* The handler goes on to its next awaited query.
Goto(i, r, pc) ==
    /\ reqs' = [reqs EXCEPT ![i] = [r EXCEPT !.pc = pc]]
    /\ pool' = pool

\* The AUTO_INCREMENT counter of a table after an INSERT with the given
\* outcome: InnoDB reserves the value when the row reaches it, also when a
\* unique key or a foreign key then refuses the row; a statement the server
\* refuses before that (unknown table or column, NULL for a NOT NULL column)
\* reserves none.
Bump(t, outcome) ==
    nextId' = IF outcome \in {"ER_NO_SUCH_TABLE", "ER_BAD_FIELD_ERROR", "ER_BAD_NULL_ERROR"}
              THEN nextId
              ELSE [nextId EXCEPT ![t] = @ + 1]

\* The uploads directory after the guarded removal of the files fs:
\* try { if (fs.existsSync(p)) fs.unlinkSync(p) } catch (unlinkError) { ... }
Unlink(r, fs) == IF r.fsError THEN files ELSE files \ fs

\* The uploads directory after the guarded removal of the files the request
\* uploaded: try { fs.unlinkSync(req.file.path) } catch (unlinkError) { ... }
Cleaned(r) == Unlink(r, {r.stored, r.stored2})

\* A segment that runs a read-only query.
ReadOnly == UNCHANGED <<dbvars, fsvars, nextId>>

----------------------------------------------------------------------------
(* Table managers: src/config/database.js 46-63 *)

\* Outcome of INSERT INTO managers for the row: the unique index on email is
\* checked before the foreign key on teamId.
ManagerInsertError(row) ==
    IF \E m \in managers : DbEq(m.email, row.email) THEN "ER_DUP_ENTRY"
    ELSE IF row.teamId # 0 /\ ~\E t \in teams : t.id = row.teamId
         THEN "ER_NO_REFERENCED_ROW_2"
         ELSE "ok"

\* POST /api/managers
PostManagers(i) ==
    LET r == reqs[i]
        count == ParseInt(r.studentCount)
        row == [id |-> nextId["managers"], name |-> Trim(r.name),
                department |-> Trim(r.department), sport |-> Trim(r.sport),
                contact |-> Trim(r.contact), email |-> Trim(r.email),
                studentCount |-> IF count = <<>> THEN 0 ELSE count[1],
                teamId |-> r.teamId, createdAt |-> now]
    IN
    /\ Runs(i, "POST /api/managers")
    /\ CASE r.pc = "start" ->
              /\ IF \/ Falsy(r.name) \/ Falsy(r.department) \/ Falsy(r.sport)
                    \/ Falsy(r.contact) \/ Falsy(r.email) \/ Falsy(r.studentCount)
                 THEN Reply(i, 400, "All fields are required", 0)
                 ELSE IF ~EmailOk(r.email)
                 THEN Reply(i, 400, "Invalid email format", 0)
                 ELSE IF count = <<>> \/ count[1] <= 0
                 THEN Reply(i, 400, "Student count must be a positive number", 0)
                 ELSE Goto(i, r, "conn")
              /\ UNCHANGED <<dbvars, fsvars, nextId>>
         [] r.pc = "q1" ->
              \* SELECT id FROM managers WHERE email = ?
              /\ IF \E m \in managers : DbEq(m.email, r.email)
                 THEN Reply(i, 400, "Email already exists", 1)
                 ELSE Goto(i, r, "q2")
              /\ UNCHANGED <<dbvars, fsvars, nextId>>
         [] r.pc = "q2" ->
              \* INSERT INTO managers ...
              /\ Bump("managers", ManagerInsertError(row))
              /\ CASE ManagerInsertError(row) = "ok" ->
                        /\ managers' = managers \cup {row}
                        /\ Goto(i, [r EXCEPT !.insertId = row.id], "q3")
                   [] ManagerInsertError(row) = "ER_DUP_ENTRY" ->
                        /\ managers' = managers
                        /\ Caught(i, "ER_DUP_ENTRY", 400, "Email already exists", 1)
                   [] OTHER ->
                        /\ managers' = managers
                        /\ Caught(i, ManagerInsertError(row), 500, "Failed to create manager", 1)
              /\ UNCHANGED <<now, extraSchema, teams, sports, students, coaches, selections, links,
                             eventImages, notices, fsvars>>
         [] r.pc = "q3" ->
              \* SELECT ... FROM managers m LEFT JOIN teams t ... WHERE m.id = ?
              /\ Reply(i, 201, "manager", 1)
              /\ UNCHANGED <<dbvars, fsvars, nextId>>


\* Outcome of UPDATE managers ... WHERE id = ? with the row's values.
ManagerUpdateError(id, row) ==
    IF ~\E m \in managers : m.id = id THEN "ok"
    ELSE IF \E m \in managers : m.id # id /\ DbEq(m.email, row.email) THEN "ER_DUP_ENTRY"
    ELSE IF row.teamId # 0 /\ ~\E t \in teams : t.id = row.teamId
         THEN "ER_NO_REFERENCED_ROW_2"
         ELSE "ok"

\* PUT /api/managers/:id
PutManagers(i) ==
    LET r == reqs[i]
        count == ParseInt(r.studentCount)
        row == [id |-> r.id, name |-> Trim(r.name),
                department |-> Trim(r.department), sport |-> Trim(r.sport),
                contact |-> Trim(r.contact), email |-> Trim(r.email),
                studentCount |-> IF count = <<>> THEN 0 ELSE count[1],
                teamId |-> r.teamId]
    IN
    /\ Runs(i, "PUT /api/managers/:id")
    /\ CASE r.pc = "start" ->
              /\ IF \/ Falsy(r.name) \/ Falsy(r.department) \/ Falsy(r.sport)
                    \/ Falsy(r.contact) \/ Falsy(r.email) \/ Falsy(r.studentCount)
                 THEN Reply(i, 400, "All fields are required", 0)
                 ELSE IF ~EmailOk(r.email)
                 THEN Reply(i, 400, "Invalid email format", 0)
                 ELSE IF count = <<>> \/ count[1] <= 0
                 THEN Reply(i, 400, "Student count must be a positive number", 0)
                 ELSE Goto(i, r, "conn")
              /\ ReadOnly
         [] r.pc = "q1" ->
              \* SELECT id FROM managers WHERE id = ?
              /\ IF ~\E m \in managers : m.id = r.id
                 THEN Reply(i, 404, "Manager not found", 1)
                 ELSE Goto(i, r, "q2")
              /\ ReadOnly
         [] r.pc = "q2" ->
              \* SELECT id FROM managers WHERE email = ? AND id != ?
              /\ IF \E m \in managers : DbEq(m.email, r.email) /\ m.id # r.id
                 THEN Reply(i, 400, "Email already exists", 1)
                 ELSE Goto(i, r, "q3")
              /\ ReadOnly
         [] r.pc = "q3" ->
              \* UPDATE managers SET ... WHERE id = ?
              /\ IF ManagerUpdateError(r.id, row) = "ok"
                 THEN /\ managers' = {IF m.id = r.id THEN row @@ m ELSE m : m \in managers}
                      /\ Goto(i, r, "q4")
                 ELSE /\ managers' = managers
                      /\ Caught(i, ManagerUpdateError(r.id, row), 500, "Failed to update manager", 1)
              /\ UNCHANGED <<now, extraSchema, teams, sports, students, coaches, selections, links,
                             eventImages, notices, fsvars, nextId>>
         [] r.pc = "q4" ->
              \* SELECT ... WHERE m.id = ?
              /\ Reply(i, 200, "manager", 1)
              /\ ReadOnly

\* The same delete under a foreign key that lets the students stay.
StudentsAfterManagerDeleteKept(id) == students

\* Rows left in students after DELETE FROM managers WHERE id = ?
\* (students.managerId ... ON DELETE CASCADE, database.js 93).
StudentsAfterManagerDelete(id) == {s \in students : s.managerId # id}

\* Rows left in coaches (coaches.managerId ... ON DELETE CASCADE, database.js 109).
CoachesAfterManagerDelete(id) == {c \in coaches : c.managerId # id}

\* Rows left in student_selections: both foreign keys cascade (database.js 125-126),
\* so the rows of the manager and the rows of its deleted students go.
SelectionsAfterManagerDelete(id) ==
    {x \in selections :
        /\ x.managerId # id
        /\ \E s \in StudentsAfterManagerDelete(id) : s.id = x.studentId}

\* Outcome of DELETE FROM managers WHERE id = ?.  student_links.managerId is
\* a foreign key for which spec.md names no ON DELETE action (its cascade
\* covers students, coaches and selections): such a key refuses the delete
\* of a manager that a link names.
ManagerDeleteError(id) ==
    IF \E l \in links : l.managerId = id THEN "ER_ROW_IS_REFERENCED_2" ELSE "ok"

\* DELETE /api/managers/:id
DeleteManagers(i) ==
    LET r == reqs[i] IN
    /\ Runs(i, "DELETE /api/managers/:id")
    /\ CASE r.pc = "start" ->
              /\ Goto(i, r, "conn")
              /\ ReadOnly
         [] r.pc = "q1" ->
              \* SELECT id FROM managers WHERE id = ?
              /\ IF ~\E m \in managers : m.id = r.id
                 THEN Reply(i, 404, "Manager not found", 1)
                 ELSE Goto(i, r, "q2")
              /\ ReadOnly
         [] r.pc = "q2" ->
              \* DELETE FROM managers WHERE id = ?
              /\ IF ManagerDeleteError(r.id) = "ok"
                 THEN /\ managers' = {m \in managers : m.id # r.id}
                      /\ students' = StudentsAfterManagerDelete(r.id)
                      /\ coaches' = CoachesAfterManagerDelete(r.id)
                      /\ selections' = SelectionsAfterManagerDelete(r.id)
                      /\ Reply(i, 200, "Manager deleted successfully", 1)
                 ELSE /\ UNCHANGED <<managers, students, coaches, selections>>
                      /\ Caught(i, ManagerDeleteError(r.id), 500, "Failed to delete manager", 1)
              /\ UNCHANGED <<now, extraSchema, teams, sports, links, eventImages, notices,
                             fsvars, nextId>>

\* Rows of managers matching WHERE email = ? AND contact = ?
LoginMatches(email, contact) ==
    {m \in managers : DbEq(m.email, email) /\ DbEq(m.contact, contact)}

\* A login that tells an unknown e-mail from a wrong contact number.
LoginRevealing(i) ==
    LET r == reqs[i] IN
    /\ Runs(i, "POST /api/managers/login")
    /\ CASE r.pc = "start" ->
              /\ IF Falsy(r.email) \/ Falsy(r.contact)
                 THEN Reply(i, 400, "Email and contact are required", 0)
                 ELSE Goto(i, r, "conn")
              /\ ReadOnly
         [] r.pc = "q1" ->
              /\ IF LoginMatches(r.email, r.contact) # {}
                 THEN Reply(i, 200, "manager", 1)
                 ELSE IF \E m \in managers : DbEq(m.email, r.email)
                 THEN Reply(i, 401, "Invalid email or contact number", 1)
                 ELSE Reply(i, 404, "Manager not found", 1)
              /\ ReadOnly

\* POST /api/managers/login
Login(i) ==
    LET r == reqs[i] IN
    /\ Runs(i, "POST /api/managers/login")
    /\ CASE r.pc = "start" ->
              /\ IF Falsy(r.email) \/ Falsy(r.contact)
                 THEN Reply(i, 400, "Email and contact are required", 0)
                 ELSE Goto(i, r, "conn")
              /\ ReadOnly
         [] r.pc = "q1" ->
              /\ IF LoginMatches(r.email, r.contact) = {}
                 THEN Reply(i, 401, "Invalid email or contact number", 1)
                 ELSE Reply(i, 200, "manager", 1)
              /\ ReadOnly

----------------------------------------------------------------------------
(* Table sports: src/config/database.js 66-75 *)

\* Outcome of INSERT INTO sports: name is UNIQUE.
SportInsertError(row) ==
    IF \E x \in sports : DbEq(x.name, row.name) THEN "ER_DUP_ENTRY" ELSE "ok"

\* GET /api/sports/:id
GetSports(i) ==
    LET r == reqs[i] IN
    /\ Runs(i, "GET /api/sports/:id")
    /\ CASE r.pc = "start" ->
              /\ Goto(i, r, "conn")
              /\ ReadOnly
         [] r.pc = "q1" ->
              \* SELECT id, name, description, ... FROM sports WHERE id = ?
              /\ Fetched(i, {s \in sports : s.id = r.id}, "Sport not found")
              /\ ReadOnly

\* POST /api/sports
PostSports(i) ==
    LET r == reqs[i]
        row == [id |-> nextId["sports"], name |-> Trim(r.name),
                description |-> TrimOrNull(r.description)]
    IN
    /\ Runs(i, "POST /api/sports")
    /\ CASE r.pc = "start" ->
              /\ IF Falsy(r.name) \/ Trim(r.name) = <<>>
                 THEN Reply(i, 400, "Sport name is required", 0)
                 ELSE Goto(i, r, "conn")
              /\ ReadOnly
         [] r.pc = "q1" ->
              \* SELECT id FROM sports WHERE name = ?
              /\ IF \E x \in sports : DbEq(x.name, Trim(r.name))
                 THEN Reply(i, 400, "Sport name already exists", 1)
                 ELSE Goto(i, r, "q2")
              /\ ReadOnly
         [] r.pc = "q2" ->
              \* INSERT INTO sports (name, description)
              /\ Bump("sports", SportInsertError(row))
              /\ IF SportInsertError(row) = "ok"
                 THEN /\ sports' = sports \cup {row}
                      /\ Goto(i, [r EXCEPT !.insertId = row.id], "q3")
                 ELSE /\ sports' = sports
                      /\ Caught(i, "ER_DUP_ENTRY", 400, "Sport name already exists", 1)
              /\ UNCHANGED <<now, extraSchema, managers, teams, students, coaches, selections, links,
                             eventImages, notices, fsvars>>
         [] r.pc = "q3" ->
              /\ Reply(i, 201, "sport", 1)
              /\ ReadOnly

\* A count that finds no manager.
ManagersUsingSportNone(id) == Cardinality({})

\* SELECT COUNT(*) FROM managers WHERE sport = (SELECT name FROM sports WHERE id = ?)
ManagersUsingSport(id) ==
    Cardinality({m \in managers : \E x \in sports : x.id = id /\ DbEq(m.sport, x.name)})

\* DELETE /api/sports/:id
DeleteSports(i) ==
    LET r == reqs[i] IN
    /\ Runs(i, "DELETE /api/sports/:id")
    /\ CASE r.pc = "start" ->
              /\ Goto(i, r, "conn")
              /\ ReadOnly
         [] r.pc = "q1" ->
              \* SELECT id FROM sports WHERE id = ?
              /\ IF ~\E x \in sports : x.id = r.id
                 THEN Reply(i, 404, "Sport not found", 1)
                 ELSE Goto(i, r, "q2")
              /\ ReadOnly
         [] r.pc = "q2" ->
              /\ IF ManagersUsingSport(r.id) > 0
                 THEN Reply(i, 400, "Cannot delete sport. It is being used by managers.", 1)
                 ELSE Goto(i, r, "q3")
              /\ ReadOnly
         [] r.pc = "q3" ->
              \* DELETE FROM sports WHERE id = ?
              /\ sports' = {x \in sports : x.id # r.id}
              /\ Reply(i, 200, "Sport deleted successfully", 1)
              /\ UNCHANGED <<now, extraSchema, managers, teams, students, coaches, selections, links,
                             eventImages, notices, fsvars, nextId>>

----------------------------------------------------------------------------
(* Table students: src/config/database.js 78-95 *)

\* Outcome of INSERT INTO students: the unique index on prn_uid is checked
\* before the foreign key on managerId.
StudentInsertError(row) ==
    \* the INSERT of the link submission names the column linkToken
    IF row.linkToken # Null /\ "students.linkToken" \notin extraSchema
    THEN "ER_BAD_FIELD_ERROR"
    ELSE IF \E s \in students : DbEq(s.prn, row.prn) THEN "ER_DUP_ENTRY"
    ELSE IF ~\E m \in managers : m.id = row.managerId THEN "ER_NO_REFERENCED_ROW_2"
    ELSE "ok"

\* POST /api/students
PostStudents(i) ==
    LET r == reqs[i]
        row == [id |-> nextId["students"], name |-> Trim(r.name), prn |-> Trim(r.prn),
                contact |-> Trim(r.contact), birthDate |-> r.birthDate,
                age |-> Age(r.birthDate, r.today, r.tz),
                managerId |-> r.managerId, linkToken |-> Null, createdAt |-> now]
    IN
    /\ Runs(i, "POST /api/students")
    /\ CASE r.pc = "start" ->
              /\ IF \/ Falsy(r.name) \/ Falsy(r.prn) \/ Falsy(r.contact)
                    \/ Falsy(r.birthDate) \/ r.managerId = 0
                 THEN Reply(i, 400, "Name, PRN/UID, Contact, Birth Date, and Manager ID are required", 0)
                 ELSE Goto(i, r, "conn")
              /\ ReadOnly
         [] r.pc = "q1" ->
              \* SELECT id FROM students WHERE prn_uid = ?
              /\ IF \E s \in students : DbEq(s.prn, Trim(r.prn))
                 THEN Reply(i, 400, "PRN/UID already exists", 1)
                 ELSE Goto(i, r, "q2")
              /\ ReadOnly
         [] r.pc = "q2" ->
              \* INSERT INTO students ...
              /\ Bump("students", StudentInsertError(row))
              /\ CASE StudentInsertError(row) = "ok" ->
                        /\ students' = students \cup {row}
                        /\ Goto(i, [r EXCEPT !.insertId = row.id], "q3")
                   [] StudentInsertError(row) = "ER_DUP_ENTRY" ->
                        /\ students' = students
                        /\ Caught(i, "ER_DUP_ENTRY", 400, "PRN/UID already exists", 1)
                   [] OTHER ->
                        /\ students' = students
                        /\ Caught(i, StudentInsertError(row), 500, "Failed to create student", 1)
              /\ UNCHANGED <<now, extraSchema, managers, teams, sports, coaches, selections, links,
                             eventImages, notices, fsvars>>
         [] r.pc = "q3" ->
              /\ Reply(i, 201, "student", 1)
              /\ ReadOnly

\* Outcome of UPDATE students SET ..., prn_uid = ? WHERE id = ?: an UPDATE
\* that matches no row writes nothing and raises no error.
StudentUpdateError(id, row) ==
    IF ~\E s \in students : s.id = id THEN "ok"
    ELSE IF \E s \in students : s.id # id /\ DbEq(s.prn, row.prn) THEN "ER_DUP_ENTRY"
    ELSE "ok"

\* PUT /api/students/:id
PutStudents(i) ==
    LET r == reqs[i]
        row == [name |-> Trim(r.name), prn |-> Trim(r.prn),
                contact |-> Trim(r.contact), birthDate |-> r.birthDate,
                age |-> Age(r.birthDate, r.today, r.tz)]
    IN
    /\ Runs(i, "PUT /api/students/:id")
    /\ CASE r.pc = "start" ->
              /\ IF \/ Falsy(r.name) \/ Falsy(r.prn) \/ Falsy(r.contact)
                    \/ Falsy(r.birthDate)
                 THEN Reply(i, 400, "Name, PRN/UID, Contact, and Birth Date are required", 0)
                 ELSE Goto(i, r, "conn")
              /\ ReadOnly
         [] r.pc = "q1" ->
              \* SELECT id FROM students WHERE id = ?
              /\ IF ~\E s \in students : s.id = r.id
                 THEN Reply(i, 404, "Student not found", 1)
                 ELSE Goto(i, r, "q2")
              /\ ReadOnly
         [] r.pc = "q2" ->
              \* SELECT id FROM students WHERE prn_uid = ? AND id != ?
              /\ IF \E s \in students : s.id # r.id /\ DbEq(s.prn, Trim(r.prn))
                 THEN Reply(i, 400, "PRN/UID already exists", 1)
                 ELSE Goto(i, r, "q3")
              /\ ReadOnly
         [] r.pc = "q3" ->
              \* UPDATE students SET ... WHERE id = ?; the catch block answers
              \* every error with 500
              /\ IF StudentUpdateError(r.id, row) = "ok"
                 THEN /\ students' = {IF s.id = r.id
                                      THEN [s EXCEPT !.name = row.name, !.prn = row.prn,
                                                     !.contact = row.contact,
                                                     !.birthDate = row.birthDate,
                                                     !.age = row.age]
                                      ELSE s : s \in students}
                      /\ Goto(i, r, "q4")
                 ELSE /\ students' = students
                      /\ Caught(i, StudentUpdateError(r.id, row), 500,
                                "Failed to update student", 1)
              /\ UNCHANGED <<now, extraSchema, managers, teams, sports, coaches, selections, links,
                             eventImages, notices, fsvars, nextId>>
         [] r.pc = "q4" ->
              \* SELECT ... FROM students WHERE id = ?
              /\ Reply(i, 200, "student", 1)
              /\ ReadOnly

\* DELETE /api/students/:id; the student's selections go with it
\* (student_selections.studentId ON DELETE CASCADE).
DeleteStudents(i) ==
    LET r == reqs[i] IN
    /\ Runs(i, "DELETE /api/students/:id")
    /\ CASE r.pc = "start" ->
              /\ Goto(i, r, "conn")
              /\ ReadOnly
         [] r.pc = "q1" ->
              \* SELECT id FROM students WHERE id = ?
              /\ IF ~\E s \in students : s.id = r.id
                 THEN Reply(i, 404, "Student not found", 1)
                 ELSE Goto(i, r, "q2")
              /\ ReadOnly
         [] r.pc = "q2" ->
              \* DELETE FROM students WHERE id = ?
              /\ students' = {s \in students : s.id # r.id}
              /\ selections' = {x \in selections : x.studentId # r.id}
              /\ Reply(i, 200, "Student deleted successfully", 1)
              /\ UNCHANGED <<now, extraSchema, managers, teams, sports, coaches, links, eventImages,
                             notices, fsvars, nextId>>

----------------------------------------------------------------------------
(* Table coaches: src/config/database.js 98-111 *)

\* Outcome of INSERT INTO coaches: foreign key on managerId.
CoachInsertError(row) ==
    IF ~\E m \in managers : m.id = row.managerId THEN "ER_NO_REFERENCED_ROW_2" ELSE "ok"

\* POST /api/coaches
PostCoaches(i) ==
    LET r == reqs[i]
        row == [id |-> nextId["coaches"], name |-> Trim(r.name),
                contact |-> Trim(r.contact), managerId |-> r.managerId,
                createdAt |-> now]
    IN
    /\ Runs(i, "POST /api/coaches")
    /\ CASE r.pc = "start" ->
              /\ IF Falsy(r.name) \/ Falsy(r.contact) \/ r.managerId = 0
                 THEN Reply(i, 400, "Name, Contact, and Manager ID are required", 0)
                 ELSE Goto(i, r, "conn")
              /\ ReadOnly
         [] r.pc = "q1" ->
              \* INSERT INTO coaches ...
              /\ Bump("coaches", CoachInsertError(row))
              /\ IF CoachInsertError(row) = "ok"
                 THEN /\ coaches' = coaches \cup {row}
                      /\ Goto(i, [r EXCEPT !.insertId = row.id], "q2")
                 ELSE /\ coaches' = coaches
                      /\ Caught(i, CoachInsertError(row), 500, "Failed to create coach", 1)
              /\ UNCHANGED <<now, extraSchema, managers, teams, sports, students, selections, links,
                             eventImages, notices, fsvars>>
         [] r.pc = "q2" ->
              /\ Reply(i, 201, "coach", 1)
              /\ ReadOnly

\* DELETE /api/coaches/:id
DeleteCoaches(i) ==
    LET r == reqs[i] IN
    /\ Runs(i, "DELETE /api/coaches/:id")
    /\ CASE r.pc = "start" ->
              /\ Goto(i, r, "conn")
              /\ ReadOnly
         [] r.pc = "q1" ->
              \* SELECT id FROM coaches WHERE id = ?
              /\ IF ~\E c \in coaches : c.id = r.id
                 THEN Reply(i, 404, "Coach not found", 1)
                 ELSE Goto(i, r, "q2")
              /\ ReadOnly
         [] r.pc = "q2" ->
              \* DELETE FROM coaches WHERE id = ?
              /\ coaches' = {c \in coaches : c.id # r.id}
              /\ Reply(i, 200, "Coach deleted successfully", 1)
              /\ UNCHANGED <<now, extraSchema, managers, teams, sports, students, selections, links,
                             eventImages, notices, fsvars, nextId>>

----------------------------------------------------------------------------
(* Table student_selections: src/config/database.js 114-128 *)

\* The same insert into a table without the key unique_student_manager.
SelectionInsertErrorNoUnique(row) ==
    IF \/ ~\E s \in students : s.id = row.studentId
       \/ ~\E m \in managers : m.id = row.managerId
    THEN "ER_NO_REFERENCED_ROW_2"
    ELSE "ok"

\* Outcome of INSERT INTO student_selections: unique (studentId, managerId),
\* then the two foreign keys.
SelectionInsertError(row) ==
    IF \E x \in selections : x.studentId = row.studentId /\ x.managerId = row.managerId
    THEN "ER_DUP_ENTRY"
    ELSE IF \/ ~\E s \in students : s.id = row.studentId
            \/ ~\E m \in managers : m.id = row.managerId
         THEN "ER_NO_REFERENCED_ROW_2"
         ELSE "ok"

\* POST /api/student-selections/toggle
Toggle(i) ==
    LET r == reqs[i]
        row == [id |-> nextId["student_selections"], studentId |-> r.studentId,
                managerId |-> r.managerId, isSelected |-> (r.flag = "true"),
                createdAt |-> now, updatedAt |-> now]
    IN
    /\ Runs(i, "POST /api/student-selections/toggle")
    /\ CASE r.pc = "start" ->
              /\ IF r.studentId = 0 \/ r.managerId = 0 \/ r.flag \notin {"true", "false"}
                 THEN Reply(i, 400, "Student ID, Manager ID, and isSelected (boolean) are required", 0)
                 ELSE Goto(i, r, "conn")
              /\ ReadOnly
         [] r.pc = "q1" ->
              \* SELECT id FROM student_selections WHERE studentId = ? AND managerId = ?
              /\ Goto(i, [r EXCEPT !.found =
                              \E x \in selections : x.studentId = r.studentId
                                                    /\ x.managerId = r.managerId], "q2")
              /\ ReadOnly
         [] r.pc = "q2" /\ r.found ->
              \* UPDATE student_selections SET isSelected = ? WHERE ...; updatedAt
              \* is ON UPDATE CURRENT_TIMESTAMP: set when the row changes
              /\ selections' = {IF /\ x.studentId = r.studentId /\ x.managerId = r.managerId
                                   /\ x.isSelected # (r.flag = "true")
                                THEN [x EXCEPT !.isSelected = (r.flag = "true"),
                                               !.updatedAt = now]
                                ELSE x : x \in selections}
              /\ Reply(i, 200, "toggled", 1)
              /\ UNCHANGED <<now, extraSchema, managers, teams, sports, students, coaches, links,
                             eventImages, notices, fsvars, nextId>>
         [] r.pc = "q2" /\ ~r.found ->
              \* INSERT INTO student_selections ...
              /\ Bump("student_selections", SelectionInsertError(row))
              /\ IF SelectionInsertError(row) = "ok"
                 THEN /\ selections' = selections \cup {row}
                      /\ Reply(i, 200, "toggled", 1)
                 ELSE /\ selections' = selections
                      /\ Caught(i, SelectionInsertError(row), 500, "Failed to toggle student selection", 1)
              /\ UNCHANGED <<now, extraSchema, managers, teams, sports, students, coaches, links,
                             eventImages, notices, fsvars>>

----------------------------------------------------------------------------
(* Uploads: multer configurations of src/index.js *)

\* Whether pat occurs in s.
Contains(s, pat) ==
    \E k \in 1..(Len(s) - Len(pat) + 1) : SubSeq(s, k, k + Len(pat) - 1) = pat

\* /jpeg|jpg|png|gif|webp/.test(s)
ImageTypesTest(s) ==
    \/ Contains(s, <<"j", "p", "e", "g">>) \/ Contains(s, <<"j", "p", "g">>)
    \/ Contains(s, <<"p", "n", "g">>) \/ Contains(s, <<"g", "i", "f">>)
    \/ Contains(s, <<"w", "e", "b", "p">>)

\* /jpeg|jpg|png/.test(s)
ScheduleTypesTest(s) ==
    \/ Contains(s, <<"j", "p", "e", "g">>) \/ Contains(s, <<"j", "p", "g">>)
    \/ Contains(s, <<"p", "n", "g">>)

PdfMime == <<"a", "p", "p", "l", "i", "c", "a", "t", "i", "o", "n", "/", "p", "d", "f">>

\* fileFilter of upload, teamLogoUpload and eventImageUpload.
ImageFilter(f) == ImageTypesTest(f.mime) /\ ImageTypesTest(ToLowerCase(f.ext))

\* fileFilter of noticeUpload for the field "document".
DocumentFilter(f) == f.mime = PdfMime

\* fileFilter of noticeUpload for the field "scheduleImage".
ScheduleFilter(f) == ScheduleTypesTest(f.mime) /\ ScheduleTypesTest(ToLowerCase(f.ext))

\* Whether multer turns the file part down: the filter refuses it, or it is
\* larger than limits.fileSize.
Refused(f, ok) == f.present /\ (~ok \/ f.big)

\* A middleware that keeps on disk the parts it accepted before it refused
\* another part of the request.
MulterFilesKeepAccepted(f, ok, n, f2, ok2, n2) ==
    (IF f.present /\ ~Refused(f, ok) THEN {n} ELSE {})
    \cup (IF f2.present /\ ~Refused(f2, ok2) THEN {n2} ELSE {})

\* What multer leaves in the uploads directory for a request with the parts
\* f (named n) and f2 (named n2): nothing when a part was refused (files
\* already written for the request are removed), else the accepted parts.
MulterFiles(f, ok, n, f2, ok2, n2) ==
    IF Refused(f, ok) \/ Refused(f2, ok2) THEN {}
    ELSE (IF f.present THEN {n} ELSE {}) \cup (IF f2.present THEN {n2} ELSE {})

NoFile == [present |-> FALSE, ext |-> <<>>, mime |-> <<>>, big |-> FALSE]

\* The answer to a request whose upload multer refused: the error is passed to
\* next(); the error-handling middleware of index.js 32-41 is registered
\* before the routes, so the framework's final handler answers.
UploadRefused(i) == Reply(i, 500, "upload refused", 0)

----------------------------------------------------------------------------
(* data/team-images.json *)

\* images.findIndex(img => img.id === id): the position of the first record
\* with the id in the array of data/team-images.json, 0 for -1.
FindIndex(images, id) ==
    IF \E k \in DOMAIN images : images[k].id = id
    THEN CHOOSE k \in DOMAIN images :
             images[k].id = id /\ \A j \in 1..(k - 1) : images[j].id # id
    ELSE 0

\* images.splice(k, 1)
Splice(images, k) == SubSeq(images, 1, k - 1) \o SubSeq(images, k + 1, Len(images))

\* POST /api/team-images/upload.  The id of the new record is
\* Date.now().toString(): nextId["team_images"] is the clock, which may still
\* show the same millisecond at the next upload.
TeamImagesUpload(i) ==
    LET r == reqs[i]
        n == nextFile
        kept == MulterFiles(r.file, ImageFilter(r.file), n, NoFile, TRUE, 0)
        r1 == [r EXCEPT !.stored = IF n \in kept THEN n ELSE 0]
        rec == [id |-> nextId["team_images"], imageUrl |-> n, teamName |-> r.name,
                sport |-> r.sport, filename |-> n]
    IN
    /\ Runs(i, "POST /api/team-images/upload")
    /\ r.pc = "start"
    /\ UNCHANGED dbvars
    /\ IF Refused(r.file, ImageFilter(r.file))
       THEN /\ UploadRefused(i)
            /\ files' = files \cup kept
            /\ UNCHANGED <<teamImages, teamImagesFile, nextFile, nextId>>
       ELSE IF ~r.file.present
       THEN /\ Reply(i, 400, "No file uploaded", 0)
            /\ UNCHANGED <<fsvars, nextId>>
       ELSE IF (Falsy(r.name) \/ Falsy(r.sport)) /\ r.fsError
       THEN \* fs.unlinkSync(req.file.path) throws, and throws again in the
            \* catch block, where it is not guarded: the error leaves the
            \* handler and the framework's final handler answers.
            /\ reqs' = [reqs EXCEPT ![i] = Answer(r1, 500, "unhandled error", 0)]
            /\ pool' = pool
            /\ files' = files \cup kept
            /\ nextFile' = nextFile + 1
            /\ UNCHANGED <<teamImages, teamImagesFile, nextId>>
       ELSE IF Falsy(r.name) \/ Falsy(r.sport)
       THEN \* fs.unlinkSync(req.file.path)
            /\ reqs' = [reqs EXCEPT ![i] = Answer(r1, 400, "Team name and sport are required", 0)]
            /\ pool' = pool
            /\ files' = (files \cup kept) \ {n}
            /\ nextFile' = nextFile + 1
            /\ UNCHANGED <<teamImages, teamImagesFile, nextId>>
       ELSE /\ reqs' = [reqs EXCEPT ![i] = Answer(r1, 200, "image", 0)]
            /\ pool' = pool
            /\ files' = files \cup kept
            /\ nextFile' = nextFile + 1
            /\ teamImages' = Append(teamImages, rec)
            /\ teamImagesFile' = TRUE
            /\ \E tick \in {0, 1} :
                   nextId' = [nextId EXCEPT !["team_images"] = @ + tick]

\* PUT /api/team-images/:id
PutTeamImages(i) ==
    LET r == reqs[i]
        n == nextFile
        kept == MulterFiles(r.file, ImageFilter(r.file), n, NoFile, TRUE, 0)
        r1 == [r EXCEPT !.stored = IF n \in kept THEN n ELSE 0]
        imageIndex == FindIndex(teamImages, r.id)
    IN
    /\ Runs(i, "PUT /api/team-images/:id")
    /\ r.pc = "start"
    /\ UNCHANGED <<dbvars, pool, nextId>>
    /\ IF Refused(r.file, ImageFilter(r.file))
       THEN /\ reqs' = [reqs EXCEPT ![i] = Answer(r, 500, "upload refused", 0)]
            /\ files' = files \cup kept
            /\ UNCHANGED <<teamImages, teamImagesFile, nextFile>>
       ELSE /\ nextFile' = IF r.file.present THEN nextFile + 1 ELSE nextFile
            /\ teamImagesFile' = teamImagesFile
            /\ IF ~teamImagesFile
               THEN /\ reqs' = [reqs EXCEPT ![i] = Answer(r1, 404, "Team images not found", 0)]
                    /\ files' = files \cup kept
                    /\ teamImages' = teamImages
               ELSE IF imageIndex = 0
               THEN /\ reqs' = [reqs EXCEPT ![i] = Answer(r1, 404, "Image not found", 0)]
                    /\ files' = files \cup kept
                    /\ teamImages' = teamImages
               ELSE LET old == teamImages[imageIndex]
                        new == [old EXCEPT
                                  !.imageUrl = IF r.file.present THEN n
                                               ELSE IF r.imageUrl # 0 THEN r.imageUrl
                                               ELSE @,
                                  !.filename = IF r.file.present THEN n ELSE @,
                                  !.teamName = r.name, !.sport = r.sport]
                    IN  IF r.file.present /\ r.fsError /\ old.filename \in files
                        THEN \* fs.unlinkSync(oldFilePath) throws into the catch block
                             /\ reqs' = [reqs EXCEPT ![i] =
                                           Answer(r1, 500, "Failed to update image", 0)]
                             /\ files' = files \cup kept
                             /\ teamImages' = teamImages
                        ELSE /\ reqs' = [reqs EXCEPT ![i] = Answer(r1, 200, "image", 0)]
                             /\ files' = IF r.file.present
                                         THEN (files \ {old.filename}) \cup kept
                                         ELSE files
                             /\ teamImages' = [teamImages EXCEPT ![imageIndex] = new]

\* DELETE /api/team-images/:id
DeleteTeamImages(i) ==
    LET r == reqs[i]
        imageIndex == FindIndex(teamImages, r.id)
    IN
    /\ Runs(i, "DELETE /api/team-images/:id")
    /\ r.pc = "start"
    /\ UNCHANGED <<dbvars, pool, nextId, nextFile, teamImagesFile>>
    /\ IF ~teamImagesFile
       THEN /\ reqs' = [reqs EXCEPT ![i] = Answer(r, 404, "Team images not found", 0)]
            /\ UNCHANGED <<files, teamImages>>
       ELSE IF imageIndex = 0
       THEN /\ reqs' = [reqs EXCEPT ![i] = Answer(r, 404, "Image not found", 0)]
            /\ UNCHANGED <<files, teamImages>>
       ELSE IF r.fsError /\ teamImages[imageIndex].filename \in files
       THEN \* fs.unlinkSync(filePath) throws into the catch block
            /\ reqs' = [reqs EXCEPT ![i] = Answer(r, 500, "Failed to delete image", 0)]
            /\ UNCHANGED <<files, teamImages>>
       ELSE /\ reqs' = [reqs EXCEPT ![i] = Answer(r, 200, "Image deleted successfully", 0)]
            /\ files' = files \ {teamImages[imageIndex].filename}
            /\ teamImages' = Splice(teamImages, imageIndex)

----------------------------------------------------------------------------
(* Table teams: src/config/database.js 32-43 (name is indexed, not unique) *)

\* color || '#f58002'
DefaultColor == <<"#", "f", "5", "8", "0", "0", "2">>

\* Outcome of INSERT INTO teams (name, department, logo, color): the table
\* of database.js 32-43 has no column color, no unique key besides id and no
\* foreign key.
TeamInsertError(row) ==
    IF "teams.color" \notin extraSchema THEN "ER_BAD_FIELD_ERROR" ELSE "ok"

\* The segment of a team handler that validates name and department after
\* multer stored the logo: the answer, if the request is turned down here.
TeamInvalid(r) ==
    IF Falsy(r.name) \/ Trim(r.name) = <<>> THEN "Team name is required"
    ELSE IF Falsy(r.department) \/ Trim(r.department) = <<>>
         THEN "Team department is required"
         ELSE ""

\* GET /api/teams/:id
GetTeams(i) ==
    LET r == reqs[i] IN
    /\ Runs(i, "GET /api/teams/:id")
    /\ CASE r.pc = "start" ->
              /\ Goto(i, r, "conn")
              /\ ReadOnly
         [] r.pc = "q1" ->
              \* SELECT id, name, department, logo, color, ... FROM teams WHERE id = ?
              /\ IF "teams.color" \in extraSchema
                 THEN Fetched(i, {x \in teams : x.id = r.id}, "Team not found")
                 ELSE Caught(i, "ER_BAD_FIELD_ERROR", 500, "Failed to fetch team", 1)
              /\ ReadOnly

\* POST /api/teams
PostTeams(i) ==
    LET r == reqs[i]
        n == nextFile
        kept == MulterFiles(r.file, ImageFilter(r.file), n, NoFile, TRUE, 0)
        r1 == [r EXCEPT !.stored = IF n \in kept THEN n ELSE 0]
        row == [id |-> nextId["teams"], name |-> Trim(r.name),
                department |-> Trim(r.department), logo |-> r.stored,
                color |-> IF Falsy(r.color) THEN DefaultColor ELSE r.color]
    IN
    /\ Runs(i, "POST /api/teams")
    /\ CASE r.pc = "start" ->
              /\ UNCHANGED <<dbvars, teamImages, teamImagesFile, nextId>>
              /\ IF Refused(r.file, ImageFilter(r.file))
                 THEN UploadRefused(i) /\ files' = files \cup kept /\ nextFile' = nextFile
                 ELSE /\ nextFile' = IF r.file.present THEN nextFile + 1 ELSE nextFile
                      /\ IF TeamInvalid(r) # ""
                         THEN IF r.fsError /\ r.file.present
                              THEN \* fs.unlinkSync(req.file.path) throws: catch block
                                   /\ files' = files \cup kept
                                   /\ reqs' = [reqs EXCEPT ![i] = Answer(r1, 500, "Failed to create team", 0)]
                                   /\ pool' = pool
                              ELSE /\ files' = (files \cup kept) \ {n}
                                   /\ reqs' = [reqs EXCEPT ![i] = Answer(r1, 400, TeamInvalid(r), 0)]
                                   /\ pool' = pool
                         ELSE /\ files' = files \cup kept
                              /\ Goto(i, r1, "conn")
         [] r.pc = "q1" ->
              \* SELECT id FROM teams WHERE name = ?
              /\ UNCHANGED <<dbvars, teamImages, teamImagesFile, nextFile, nextId>>
              /\ IF \E t \in teams : DbEq(t.name, Trim(r.name))
                 THEN IF r.fsError /\ r.stored # 0
                      THEN \* conn.release(), then fs.unlinkSync(req.file.path) throws:
                           \* the catch block calls conn.release() again
                           /\ files' = files
                           /\ Reply(i, 500, "Failed to create team", 2)
                      ELSE /\ files' = files \ {r.stored}
                           /\ Reply(i, 400, "Team name already exists", 1)
                 ELSE /\ files' = files
                      /\ Goto(i, r, "q2")
         [] r.pc = "q2" ->
              \* INSERT INTO teams (name, department, logo, color)
              /\ Bump("teams", TeamInsertError(row))
              /\ CASE TeamInsertError(row) = "ok" ->
                        /\ teams' = teams \cup {row}
                        /\ files' = files
                        /\ Goto(i, [r EXCEPT !.insertId = row.id], "q3")
                   [] TeamInsertError(row) = "ER_DUP_ENTRY" ->
                        /\ teams' = teams
                        /\ files' = Cleaned(r)
                        /\ Caught(i, "ER_DUP_ENTRY", 400, "Team name already exists", 1)
                   [] OTHER ->
                        /\ teams' = teams
                        /\ files' = Cleaned(r)
                        /\ Caught(i, TeamInsertError(row), 500, "Failed to create team", 1)
              /\ UNCHANGED <<now, extraSchema, managers, sports, students, coaches, selections, links,
                             eventImages, notices, teamImages, teamImagesFile, nextFile>>
         [] r.pc = "q3" ->
              /\ Reply(i, 201, "team", 1)
              /\ ReadOnly

\* Outcome of UPDATE teams SET name, department, logo, color WHERE id = ?
TeamUpdateError(id, row) ==
    IF "teams.color" \notin extraSchema THEN "ER_BAD_FIELD_ERROR" ELSE "ok"

\* PUT /api/teams/:id
PutTeams(i) ==
    LET r == reqs[i]
        n == nextFile
        kept == MulterFiles(r.file, ImageFilter(r.file), n, NoFile, TRUE, 0)
        r1 == [r EXCEPT !.stored = IF n \in kept THEN n ELSE 0]
        found == {t \in teams : t.id = r.id}
        row == [id |-> r.id, name |-> Trim(r.name),
                department |-> Trim(r.department),
                logo |-> IF r.stored # 0 THEN r.stored ELSE r.old,
                \* existing[0] holds id and logo only: color || undefined || default
                color |-> IF Falsy(r.color) THEN DefaultColor ELSE r.color]
    IN
    /\ Runs(i, "PUT /api/teams/:id")
    /\ CASE r.pc = "start" ->
              /\ UNCHANGED <<dbvars, teamImages, teamImagesFile, nextId>>
              /\ IF Refused(r.file, ImageFilter(r.file))
                 THEN UploadRefused(i) /\ files' = files \cup kept /\ nextFile' = nextFile
                 ELSE /\ nextFile' = IF r.file.present THEN nextFile + 1 ELSE nextFile
                      /\ IF TeamInvalid(r) # ""
                         THEN IF r.fsError /\ r.file.present
                              THEN \* fs.unlinkSync(req.file.path) throws: catch block
                                   /\ files' = files \cup kept
                                   /\ reqs' = [reqs EXCEPT ![i] = Answer(r1, 500, "Failed to update team", 0)]
                                   /\ pool' = pool
                              ELSE /\ files' = (files \cup kept) \ {n}
                                   /\ reqs' = [reqs EXCEPT ![i] = Answer(r1, 400, TeamInvalid(r), 0)]
                                   /\ pool' = pool
                         ELSE /\ files' = files \cup kept
                              /\ Goto(i, r1, "conn")
         [] r.pc = "q1" ->
              \* SELECT id, logo FROM teams WHERE id = ?
              /\ UNCHANGED <<dbvars, teamImages, teamImagesFile, nextFile, nextId>>
              /\ IF found = {}
                 THEN IF r.fsError /\ r.stored # 0
                      THEN \* conn.release(), then fs.unlinkSync(req.file.path) throws:
                           \* the catch block calls conn.release() again
                           /\ files' = files
                           /\ Reply(i, 500, "Failed to update team", 2)
                      ELSE /\ files' = files \ {r.stored}
                           /\ Reply(i, 404, "Team not found", 1)
                 ELSE /\ files' = files
                      /\ Goto(i, [r EXCEPT !.old = (CHOOSE t \in found : TRUE).logo], "q2")
         [] r.pc = "q2" ->
              \* SELECT id FROM teams WHERE name = ? AND id != ?
              /\ UNCHANGED <<dbvars, teamImages, teamImagesFile, nextFile, nextId>>
              /\ IF \E t \in teams : DbEq(t.name, Trim(r.name)) /\ t.id # r.id
                 THEN IF r.fsError /\ r.stored # 0
                      THEN /\ files' = files
                           /\ Reply(i, 500, "Failed to update team", 2)
                      ELSE /\ files' = files \ {r.stored}
                           /\ Reply(i, 400, "Team name already exists", 1)
                 ELSE \* a new logo replaces the old file
                      /\ files' = IF r.stored # 0 THEN Unlink(r, {r.old}) ELSE files
                      /\ Goto(i, r, "q3")
         [] r.pc = "q3" ->
              \* UPDATE teams SET name, department, logo, color WHERE id = ?
              /\ IF TeamUpdateError(r.id, row) = "ok"
                 THEN /\ teams' = {IF t.id = r.id THEN row ELSE t : t \in teams}
                      /\ files' = files
                      /\ Goto(i, r, "q4")
                 ELSE /\ teams' = teams
                      /\ files' = Cleaned(r)
                      /\ Caught(i, TeamUpdateError(r.id, row), 500, "Failed to update team", 1)
              /\ UNCHANGED <<now, extraSchema, managers, sports, students, coaches, selections, links,
                             eventImages, notices, teamImages, teamImagesFile, nextFile,
                             nextId>>
         [] r.pc = "q4" ->
              /\ Reply(i, 200, "team", 1)
              /\ ReadOnly

\* The same delete under a foreign key declared ON DELETE CASCADE.
ManagersAfterTeamDeleteCascade(id) == {m \in managers : m.teamId # id}

\* Rows of managers after DELETE FROM teams WHERE id = ?
\* (managers.teamId ... ON DELETE SET NULL, database.js 61).
ManagersAfterTeamDelete(id) ==
    {IF m.teamId = id THEN [m EXCEPT !.teamId = 0] ELSE m : m \in managers}

\* DELETE /api/teams/:id
DeleteTeams(i) ==
    LET r == reqs[i]
        found == {t \in teams : t.id = r.id}
    IN
    /\ Runs(i, "DELETE /api/teams/:id")
    /\ CASE r.pc = "start" ->
              /\ Goto(i, r, "conn")
              /\ ReadOnly
         [] r.pc = "q1" ->
              \* SELECT id, logo FROM teams WHERE id = ?
              /\ UNCHANGED <<dbvars, teamImages, teamImagesFile, nextFile, nextId>>
              /\ IF found = {}
                 THEN /\ files' = files
                      /\ Reply(i, 404, "Team not found", 1)
                 ELSE \* the logo file is removed before the row
                      /\ files' = Unlink(r, {(CHOOSE t \in found : TRUE).logo})
                      /\ Goto(i, r, "q2")
         [] r.pc = "q2" ->
              \* DELETE FROM teams WHERE id = ?
              /\ teams' = {t \in teams : t.id # r.id}
              /\ managers' = ManagersAfterTeamDelete(r.id)
              /\ Reply(i, 200, "Team deleted successfully", 1)
              /\ UNCHANGED <<now, extraSchema, sports, students, coaches, selections, links,
                             eventImages, notices, fsvars, nextId>>

----------------------------------------------------------------------------
(* Table event_images: src/config/database.js 131-142 *)

\* displayOrder ? parseInt(displayOrder) : dflt ; <<>> stands for NaN
OrderOf(text, dflt) == IF Falsy(text) THEN <<dflt>> ELSE ParseInt(text)

\* GET /api/event-images/:id
GetEventImages(i) ==
    LET r == reqs[i] IN
    /\ Runs(i, "GET /api/event-images/:id")
    /\ CASE r.pc = "start" ->
              /\ Goto(i, r, "conn")
              /\ ReadOnly
         [] r.pc = "q1" ->
              \* SELECT id, title, description, imageUrl, displayOrder, ... WHERE id = ?
              /\ Fetched(i, {e \in eventImages : e.id = r.id}, "Event image not found")
              /\ ReadOnly

\* POST /api/event-images
PostEventImages(i) ==
    LET r == reqs[i]
        n == nextFile
        kept == MulterFiles(r.file, ImageFilter(r.file), n, NoFile, TRUE, 0)
        r1 == [r EXCEPT !.stored = IF n \in kept THEN n ELSE 0]
        order == OrderOf(r.displayOrder, 0)
        row == [id |-> nextId["event_images"], title |-> TrimOrNull(r.title),
                description |-> TrimOrNull(r.description), imageUrl |-> r.stored,
                displayOrder |-> IF order = <<>> THEN 0 ELSE order[1],
                createdAt |-> now]
    IN
    /\ Runs(i, "POST /api/event-images")
    /\ CASE r.pc = "start" ->
              /\ UNCHANGED <<dbvars, teamImages, teamImagesFile, nextId>>
              /\ IF Refused(r.file, ImageFilter(r.file))
                 THEN UploadRefused(i) /\ files' = files \cup kept /\ nextFile' = nextFile
                 ELSE IF ~r.file.present
                 THEN Reply(i, 400, "Image file is required", 0) /\ UNCHANGED <<files, nextFile>>
                 ELSE /\ nextFile' = nextFile + 1
                      /\ files' = files \cup kept
                      /\ Goto(i, r1, "conn")
         [] r.pc = "q1" ->
              \* INSERT INTO event_images (title, description, imageUrl, displayOrder)
              /\ Bump("event_images", IF order = <<>> THEN "ER_BAD_FIELD_ERROR" ELSE "ok")
              /\ IF order # <<>>
                 THEN /\ eventImages' = eventImages \cup {row}
                      /\ files' = files
                      /\ Goto(i, [r EXCEPT !.insertId = row.id], "q2")
                 ELSE \* the parameter NaN is refused as an unknown column
                      /\ eventImages' = eventImages
                      /\ files' = Cleaned(r)
                      /\ Caught(i, "ER_BAD_FIELD_ERROR", 500, "Failed to create event image", 1)
              /\ UNCHANGED <<now, extraSchema, managers, teams, sports, students, coaches, selections,
                             links, notices, teamImages, teamImagesFile, nextFile>>
         [] r.pc = "q2" ->
              /\ Reply(i, 201, "image", 1)
              /\ ReadOnly

\* PUT /api/event-images/:id
PutEventImages(i) ==
    LET r == reqs[i]
        n == nextFile
        kept == MulterFiles(r.file, ImageFilter(r.file), n, NoFile, TRUE, 0)
        r1 == [r EXCEPT !.stored = IF n \in kept THEN n ELSE 0]
        found == {x \in eventImages : x.id = r.id}
        \* existing[0] holds id and imageUrl only: existing[0].displayOrder || 0 is 0
        order == OrderOf(r.displayOrder, 0)
        row == [id |-> r.id, title |-> TrimOrNull(r.title),
                description |-> TrimOrNull(r.description),
                imageUrl |-> IF r.stored # 0 THEN r.stored ELSE r.old,
                displayOrder |-> IF order = <<>> THEN 0 ELSE order[1]]
    IN
    /\ Runs(i, "PUT /api/event-images/:id")
    /\ CASE r.pc = "start" ->
              /\ UNCHANGED <<dbvars, teamImages, teamImagesFile, nextId>>
              /\ IF Refused(r.file, ImageFilter(r.file))
                 THEN UploadRefused(i) /\ files' = files \cup kept /\ nextFile' = nextFile
                 ELSE /\ nextFile' = IF r.file.present THEN nextFile + 1 ELSE nextFile
                      /\ files' = files \cup kept
                      /\ Goto(i, r1, "conn")
         [] r.pc = "q1" ->
              \* SELECT id, imageUrl FROM event_images WHERE id = ?
              /\ UNCHANGED <<dbvars, teamImages, teamImagesFile, nextFile, nextId>>
              /\ IF found = {}
                 THEN IF r.fsError /\ r.stored # 0
                      THEN \* conn.release(), then fs.unlinkSync(req.file.path) throws:
                           \* the catch block calls conn.release() again
                           /\ files' = files
                           /\ Reply(i, 500, "Failed to update event image", 2)
                      ELSE /\ files' = files \ {r.stored}
                           /\ Reply(i, 404, "Event image not found", 1)
                 ELSE LET old == CHOOSE x \in found : TRUE IN
                      \* a new image replaces the old file
                      /\ files' = IF r.stored # 0 THEN Unlink(r, {old.imageUrl}) ELSE files
                      /\ Goto(i, [r EXCEPT !.old = old.imageUrl], "q2")
         [] r.pc = "q2" ->
              \* UPDATE event_images SET ... WHERE id = ?
              /\ IF order # <<>>
                 THEN /\ eventImages' = {IF x.id = r.id THEN row @@ x ELSE x : x \in eventImages}
                      /\ files' = files
                      /\ Goto(i, r, "q3")
                 ELSE /\ eventImages' = eventImages
                      /\ files' = Cleaned(r)
                      /\ Caught(i, "ER_BAD_FIELD_ERROR", 500, "Failed to update event image", 1)
              /\ UNCHANGED <<now, extraSchema, managers, teams, sports, students, coaches, selections,
                             links, notices, teamImages, teamImagesFile, nextFile, nextId>>
         [] r.pc = "q3" ->
              /\ Reply(i, 200, "image", 1)
              /\ ReadOnly

\* DELETE /api/event-images/:id
DeleteEventImages(i) ==
    LET r == reqs[i]
        found == {e \in eventImages : e.id = r.id}
    IN
    /\ Runs(i, "DELETE /api/event-images/:id")
    /\ CASE r.pc = "start" ->
              /\ Goto(i, r, "conn")
              /\ ReadOnly
         [] r.pc = "q1" ->
              \* SELECT id, imageUrl FROM event_images WHERE id = ?
              /\ UNCHANGED <<dbvars, teamImages, teamImagesFile, nextFile, nextId>>
              /\ IF found = {}
                 THEN /\ files' = files
                      /\ Reply(i, 404, "Event image not found", 1)
                 ELSE \* the image file is removed before the row
                      /\ files' = Unlink(r, {(CHOOSE e \in found : TRUE).imageUrl})
                      /\ Goto(i, r, "q2")
         [] r.pc = "q2" ->
              \* DELETE FROM event_images WHERE id = ?
              /\ eventImages' = {e \in eventImages : e.id # r.id}
              /\ Reply(i, 200, "Event image deleted successfully", 1)
              /\ UNCHANGED <<now, extraSchema, managers, teams, sports, students, coaches, selections,
                             links, notices, fsvars, nextId>>

----------------------------------------------------------------------------
(* Table notices: src/config/database.js 145-158 *)

\* The answer of POST /api/notices to a request it turns down in validation.
NoticeInvalid(r) ==
    IF Falsy(r.title) \/ Trim(r.title) = <<>> THEN "Notice title is required"
    ELSE IF Falsy(r.description) \/ Trim(r.description) = <<>>
         THEN "Notice description is required"
    ELSE IF Falsy(r.noticeDate) THEN "Notice date is required"
    ELSE ""

\* Whether multer (noticeUpload.fields) turns the request down.
NoticeRefused(r) ==
    Refused(r.file, DocumentFilter(r.file)) \/ Refused(r.file2, ScheduleFilter(r.file2))

\* GET /api/notices/:id
GetNotices(i) ==
    LET r == reqs[i] IN
    /\ Runs(i, "GET /api/notices/:id")
    /\ CASE r.pc = "start" ->
              /\ Goto(i, r, "conn")
              /\ ReadOnly
         [] r.pc = "q1" ->
              \* SELECT id, title, description, documentUrl, scheduleImageUrl, noticeDate, ...
              /\ Fetched(i, {NoticeJson(x, r.tz) : x \in {y \in notices : y.id = r.id}},
                         "Notice not found")
              /\ ReadOnly

\* POST /api/notices
PostNotices(i) ==
    LET r == reqs[i]
        n == nextFile
        n2 == nextFile + 1
        kept == MulterFiles(r.file, DocumentFilter(r.file), n,
                            r.file2, ScheduleFilter(r.file2), n2)
        r1 == [r EXCEPT !.stored = IF n \in kept THEN n ELSE 0,
                        !.stored2 = IF n2 \in kept THEN n2 ELSE 0]
        row == [id |-> nextId["notices"], title |-> Trim(r.title),
                description |-> Trim(r.description), documentUrl |-> r.stored,
                scheduleImageUrl |-> r.stored2, noticeDate |-> r.noticeDate,
                createdAt |-> now]
    IN
    /\ Runs(i, "POST /api/notices")
    /\ CASE r.pc = "start" ->
              /\ UNCHANGED <<dbvars, teamImages, teamImagesFile, nextId>>
              /\ IF NoticeRefused(r)
                 THEN UploadRefused(i) /\ files' = files \cup kept /\ nextFile' = nextFile
                 ELSE /\ nextFile' = nextFile + 2
                      /\ IF NoticeInvalid(r) # ""
                         THEN \* each unlink is guarded by its own try
                              /\ files' = IF r.fsError THEN files \cup kept
                                          ELSE (files \cup kept) \ {n, n2}
                              /\ reqs' = [reqs EXCEPT ![i] = Answer(r1, 400, NoticeInvalid(r), 0)]
                              /\ pool' = pool
                         ELSE /\ files' = files \cup kept
                              /\ Goto(i, r1, "conn")
         [] r.pc = "q1" ->
              \* INSERT INTO notices (title, description, documentUrl, scheduleImageUrl, noticeDate)
              /\ Bump("notices", "ok")
              /\ notices' = notices \cup {row}
              /\ Goto(i, [r EXCEPT !.insertId = row.id], "q2")
              /\ UNCHANGED <<now, extraSchema, managers, teams, sports, students, coaches, selections,
                             links, eventImages, fsvars>>
         [] r.pc = "q2" ->
              /\ Reply(i, 201, "notice", 1)
              /\ ReadOnly

\* Outcome of UPDATE notices: title, description and noticeDate are NOT NULL.
NoticeUpdateError(id, row) ==
    IF /\ \E x \in notices : x.id = id
       /\ (row.title = Null \/ row.description = Null \/ row.noticeDate = Null)
    THEN "ER_BAD_NULL_ERROR"
    ELSE "ok"

\* PUT /api/notices/:id
PutNotices(i) ==
    LET r == reqs[i]
        n == nextFile
        n2 == nextFile + 1
        kept == MulterFiles(r.file, DocumentFilter(r.file), n,
                            r.file2, ScheduleFilter(r.file2), n2)
        r1 == [r EXCEPT !.stored = IF n \in kept THEN n ELSE 0,
                        !.stored2 = IF n2 \in kept THEN n2 ELSE 0]
        found == {x \in notices : x.id = r.id}
        row == [id |-> r.id, title |-> TrimOrNull(r.title),
                description |-> TrimOrNull(r.description),
                documentUrl |-> IF r.stored # 0 THEN r.stored ELSE r.old,
                scheduleImageUrl |-> IF r.stored2 # 0 THEN r.stored2 ELSE r.old2,
                \* existing[0] holds no noticeDate: noticeDate || undefined
                noticeDate |-> IF Falsy(r.noticeDate) THEN Null ELSE r.noticeDate]
    IN
    /\ Runs(i, "PUT /api/notices/:id")
    /\ CASE r.pc = "start" ->
              /\ UNCHANGED <<dbvars, teamImages, teamImagesFile, nextId>>
              /\ IF NoticeRefused(r)
                 THEN UploadRefused(i) /\ files' = files \cup kept /\ nextFile' = nextFile
                 ELSE /\ nextFile' = nextFile + 2
                      /\ files' = files \cup kept
                      /\ Goto(i, r1, "conn")
         [] r.pc = "q1" ->
              \* SELECT id, documentUrl, scheduleImageUrl FROM notices WHERE id = ?
              /\ UNCHANGED <<dbvars, teamImages, teamImagesFile, nextFile, nextId>>
              /\ IF found = {}
                 THEN /\ files' = Cleaned(r)
                      /\ Reply(i, 404, "Notice not found", 1)
                 ELSE LET old == CHOOSE x \in found : TRUE IN
                      \* each new file replaces the old file of its field
                      /\ files' = Unlink(r, (IF r.stored # 0 THEN {old.documentUrl} ELSE {})
                                      \cup (IF r.stored2 # 0 THEN {old.scheduleImageUrl}
                                            ELSE {}))
                      /\ Goto(i, [r EXCEPT !.old = old.documentUrl,
                                           !.old2 = old.scheduleImageUrl], "q2")
         [] r.pc = "q2" ->
              \* UPDATE notices SET ... WHERE id = ?
              /\ IF NoticeUpdateError(r.id, row) = "ok"
                 THEN /\ notices' = {IF x.id = r.id THEN row @@ x ELSE x : x \in notices}
                      /\ files' = files
                      /\ Goto(i, r, "q3")
                 ELSE /\ notices' = notices
                      /\ files' = Cleaned(r)
                      /\ Caught(i, NoticeUpdateError(r.id, row), 500, "Failed to update notice", 1)
              /\ UNCHANGED <<now, extraSchema, managers, teams, sports, students, coaches, selections,
                             links, eventImages, teamImages, teamImagesFile, nextFile,
                             nextId>>
         [] r.pc = "q3" ->
              /\ Reply(i, 200, "notice", 1)
              /\ ReadOnly

\* DELETE /api/notices/:id
DeleteNotices(i) ==
    LET r == reqs[i]
        found == {x \in notices : x.id = r.id}
    IN
    /\ Runs(i, "DELETE /api/notices/:id")
    /\ CASE r.pc = "start" ->
              /\ Goto(i, r, "conn")
              /\ ReadOnly
         [] r.pc = "q1" ->
              \* SELECT id, documentUrl, scheduleImageUrl FROM notices WHERE id = ?
              /\ UNCHANGED <<dbvars, teamImages, teamImagesFile, nextFile, nextId>>
              /\ IF found = {}
                 THEN /\ files' = files
                      /\ Reply(i, 404, "Notice not found", 1)
                 ELSE \* both files are removed before the row
                      /\ files' = Unlink(r, {(CHOOSE x \in found : TRUE).documentUrl,
                                           (CHOOSE x \in found : TRUE).scheduleImageUrl})
                      /\ Goto(i, r, "q2")
         [] r.pc = "q2" ->
              \* DELETE FROM notices WHERE id = ?
              /\ notices' = {x \in notices : x.id # r.id}
              /\ Reply(i, 200, "Notice deleted successfully", 1)
              /\ UNCHANGED <<now, extraSchema, managers, teams, sports, students, coaches, selections,
                             links, eventImages, fsvars, nextId>>

----------------------------------------------------------------------------
(* Table student_links: id, managerId (foreign key to managers), token     *)
(* (unique), isActive ("TRUE" for a new row, "FALSE" or "NULL"), createdAt. *)
(* A database without the table holds no link: every statement that names  *)
(* it is refused.                                                          *)

\* Values crypto.randomBytes(32).toString('hex') may return.
Tokens == {<<"t">>, <<"u">>}

\* The same on a table whose token column has no unique index.
LinkInsertErrorNoUnique(row) ==
    IF ~\E m \in managers : m.id = row.managerId THEN "ER_NO_REFERENCED_ROW_2"
    ELSE "ok"

\* Outcome of INSERT INTO student_links (managerId, token).
LinkInsertError(row) ==
    IF \E l \in links : DbEq(l.token, row.token) THEN "ER_DUP_ENTRY"
    ELSE IF ~\E m \in managers : m.id = row.managerId THEN "ER_NO_REFERENCED_ROW_2"
    ELSE "ok"

\* POST /api/student-links
PostLinks(i) ==
    LET r == reqs[i]
        row == [id |-> nextId["student_links"], managerId |-> r.managerId,
                token |-> r.token, isActive |-> "TRUE", createdAt |-> now]
    IN
    /\ Runs(i, "POST /api/student-links")
    /\ CASE r.pc = "start" ->
              /\ IF r.managerId = 0
                 THEN Reply(i, 400, "Manager ID is required", 0)
                 ELSE Goto(i, r, "conn")
              /\ ReadOnly
         [] r.pc = "q1" ->
              \* SELECT id FROM managers WHERE id = ?
              /\ IF ~\E m \in managers : m.id = r.managerId
                 THEN Reply(i, 404, "Manager not found", 1)
                 ELSE Goto(i, r, "q2")
              /\ ReadOnly
         [] r.pc = "q2" ->
              \* token = generateToken(); SELECT id FROM student_links WHERE token = ?
              /\ \E t \in Tokens :
                    IF "student_links" \notin extraSchema
                    THEN Caught(i, "ER_NO_SUCH_TABLE", 500, "Failed to create student link", 1)
                    ELSE IF \E l \in links : DbEq(l.token, t)
                    THEN Goto(i, [r EXCEPT !.token = t], "q2")
                    ELSE Goto(i, [r EXCEPT !.token = t], "q3")
              /\ ReadOnly
         [] r.pc = "q3" ->
              \* INSERT INTO student_links (managerId, token)
              /\ Bump("student_links", LinkInsertError(row))
              /\ IF LinkInsertError(row) = "ok"
                 THEN /\ links' = links \cup {row}
                      /\ Goto(i, [r EXCEPT !.insertId = row.id], "q4")
                 ELSE /\ links' = links
                      /\ Caught(i, LinkInsertError(row), 500, "Failed to create student link", 1)
              /\ UNCHANGED <<now, extraSchema, managers, teams, sports, students, coaches, selections,
                             eventImages, notices, fsvars>>
         [] r.pc = "q4" ->
              /\ Reply(i, 201, "link", 1)
              /\ ReadOnly

\* Rows of SELECT ... FROM student_links sl JOIN managers m ON sl.managerId = m.id
\* WHERE sl.token = ? AND sl.isActive = TRUE
ActiveLinksJoined(token) ==
    {l \in links : /\ DbEq(l.token, token) /\ l.isActive = "TRUE"
                   /\ \E m \in managers : m.id = l.managerId}

\* GET /api/student-links/token/:token
GetLinkByToken(i) ==
    LET r == reqs[i] IN
    /\ Runs(i, "GET /api/student-links/token/:token")
    /\ CASE r.pc = "start" ->
              /\ Goto(i, r, "conn")
              /\ ReadOnly
         [] r.pc = "q1" ->
              /\ IF "student_links" \notin extraSchema
                 THEN Caught(i, "ER_NO_SUCH_TABLE", 500, "Failed to fetch link", 1)
                 ELSE IF ActiveLinksJoined(r.token) = {}
                 THEN Reply(i, 404, "Link not found or inactive", 1)
                 ELSE Reply(i, 200, "link", 1)
              /\ ReadOnly

\* The same query without the condition on isActive.
ActiveLinksAny(token) == {l \in links : DbEq(l.token, token)}

\* Rows of SELECT id, managerId FROM student_links WHERE token = ? AND isActive = TRUE
ActiveLinks(token) == {l \in links : DbEq(l.token, token) /\ l.isActive = "TRUE"}

\* The answer of POST /api/student-links/submit to a request it turns down in
\* validation.
SubmitInvalid(r) ==
    IF Falsy(r.token) THEN "Token is required"
    ELSE IF Falsy(r.name) \/ Trim(r.name) = <<>> THEN "Name is required"
    ELSE IF Falsy(r.prn) \/ Trim(r.prn) = <<>> THEN "PRN/UID is required"
    ELSE IF Falsy(r.contact) \/ Trim(r.contact) = <<>> THEN "Contact is required"
    ELSE IF Falsy(r.birthDate) THEN "Birth date is required"
    ELSE ""

\* POST /api/student-links/submit
SubmitLink(i) ==
    LET r == reqs[i]
        row == [id |-> nextId["students"], name |-> Trim(r.name), prn |-> Trim(r.prn),
                contact |-> Trim(r.contact), birthDate |-> r.birthDate,
                age |-> Age(r.birthDate, r.today, r.tz),
                managerId |-> r.lmanager, linkToken |-> r.token, createdAt |-> now]
    IN
    /\ Runs(i, "POST /api/student-links/submit")
    /\ CASE r.pc = "start" ->
              /\ IF SubmitInvalid(r) # ""
                 THEN Reply(i, 400, SubmitInvalid(r), 0)
                 ELSE Goto(i, r, "conn")
              /\ ReadOnly
         [] r.pc = "q1" ->
              \* SELECT id, managerId FROM student_links WHERE token = ? AND isActive = TRUE
              /\ IF "student_links" \notin extraSchema
                 THEN Caught(i, "ER_NO_SUCH_TABLE", 500, "Failed to submit student form", 1)
                 ELSE IF ActiveLinks(r.token) = {}
                 THEN Reply(i, 404, "Invalid or inactive link", 1)
                 ELSE Goto(i, [r EXCEPT !.lmanager =
                                  (CHOOSE l \in ActiveLinks(r.token) : TRUE).managerId], "q2")
              /\ ReadOnly
         [] r.pc = "q2" ->
              \* SELECT id FROM students WHERE prn_uid = ?
              /\ IF \E s \in students : DbEq(s.prn, Trim(r.prn))
                 THEN Reply(i, 400, "PRN/UID already exists", 1)
                 ELSE Goto(i, r, "q3")
              /\ ReadOnly
         [] r.pc = "q3" ->
              \* INSERT INTO students (..., managerId, linkToken)
              /\ Bump("students", StudentInsertError(row))
              /\ CASE StudentInsertError(row) = "ok" ->
                        /\ students' = students \cup {row}
                        /\ Goto(i, [r EXCEPT !.insertId = row.id], "q4")
                   [] StudentInsertError(row) = "ER_DUP_ENTRY" ->
                        /\ students' = students
                        /\ Caught(i, "ER_DUP_ENTRY", 400, "PRN/UID already exists", 1)
                   [] OTHER ->
                        /\ students' = students
                        /\ Caught(i, StudentInsertError(row), 500, "Failed to submit student form", 1)
              /\ UNCHANGED <<now, extraSchema, managers, teams, sports, coaches, selections, links,
                             eventImages, notices, fsvars>>
         [] r.pc = "q4" ->
              /\ Reply(i, 201, "student", 1)
              /\ ReadOnly

\* A prepared table student_links may declare isActive NOT NULL.
IsActiveNotNull == "student_links.isActive NOT NULL"

\* Outcome of UPDATE student_links SET isActive = ? WHERE id = ?: NULL for a
\* NOT NULL column is refused when a row is to be written (strict SQL mode,
\* the default of the server).
LinkUpdateError(id, value) ==
    IF "student_links" \notin extraSchema THEN "ER_NO_SUCH_TABLE"
    ELSE IF /\ value = "NULL" /\ IsActiveNotNull \in extraSchema
            /\ \E l \in links : l.id = id
         THEN "ER_BAD_NULL_ERROR"
         ELSE "ok"

\* PUT /api/student-links/:id
PutLinks(i) ==
    LET r == reqs[i]
        \* const { isActive } = req.body: undefined is bound as NULL
        isActive == CASE r.flag = "true" -> "TRUE"
                      [] r.flag = "false" -> "FALSE"
                      [] OTHER -> "NULL"
    IN
    /\ Runs(i, "PUT /api/student-links/:id")
    /\ CASE r.pc = "start" ->
              /\ Goto(i, r, "conn")
              /\ ReadOnly
         [] r.pc = "q1" ->
              \* UPDATE student_links SET isActive = ? WHERE id = ?
              /\ IF LinkUpdateError(r.id, isActive) = "ok"
                 THEN /\ links' = {IF l.id = r.id THEN [l EXCEPT !.isActive = isActive]
                                   ELSE l : l \in links}
                      /\ Goto(i, r, "q2")
                 ELSE /\ links' = links
                      /\ Caught(i, LinkUpdateError(r.id, isActive), 500,
                                "Failed to update link", 1)
              /\ UNCHANGED <<now, extraSchema, managers, teams, sports, students, coaches, selections,
                             eventImages, notices, fsvars, nextId>>
         [] r.pc = "q2" ->
              \* SELECT * FROM student_links WHERE id = ?
              /\ Reply(i, 200, "link", 1)
              /\ ReadOnly

\* DELETE /api/student-links/:id runs the DELETE statement at once, without
\* selecting the row first.
DeleteLinks(i) ==
    LET r == reqs[i] IN
    /\ Runs(i, "DELETE /api/student-links/:id")
    /\ CASE r.pc = "start" ->
              /\ Goto(i, r, "conn")
              /\ ReadOnly
         [] r.pc = "q1" ->
              \* DELETE FROM student_links WHERE id = ?
              /\ links' = IF "student_links" \notin extraSchema THEN links
                           ELSE {l \in links : l.id # r.id}
              /\ IF "student_links" \in extraSchema
                 THEN Reply(i, 200, "Link deleted successfully", 1)
                 ELSE Caught(i, "ER_NO_SUCH_TABLE", 500, "Failed to delete link", 1)
              /\ UNCHANGED <<now, extraSchema, managers, teams, sports, students, coaches, selections,
                             eventImages, notices, fsvars, nextId>>

----------------------------------------------------------------------------
(* Requests the clients send, and the rows a behaviour may start from *)

EmailA == <<"a", "@", "b", ".", "c">>
EmailX == <<"x", "@", "b", ".", "c">>

\* A file part multer accepts as an image, and one it accepts as a document.
Png == [present |-> TRUE, ext |-> <<".", "p", "n", "g">>,
        mime |-> <<"i", "m", "a", "g", "e", "/", "p", "n", "g">>, big |-> FALSE]
Pdf == [present |-> TRUE, ext |-> <<".", "p", "d", "f">>, mime |-> PdfMime, big |-> FALSE]

\* A PDF document with the extension of an image, and an image over the size limit.
Exe == [present |-> TRUE, ext |-> <<".", "p", "n", "g">>, mime |-> PdfMime, big |-> FALSE]
BigPng == [Png EXCEPT !.big = TRUE]

ReqPostManagers(email, sport, contact, teamId) ==
    [BlankReq EXCEPT !.op = "POST /api/managers", !.name = <<"n">>,
                     !.department = <<"d">>, !.sport = sport, !.contact = contact,
                     !.email = email, !.studentCount = <<"3">>, !.teamId = teamId]

ReqPutManagers(id, email, sport) ==
    [BlankReq EXCEPT !.op = "PUT /api/managers/:id", !.id = id, !.name = <<"n">>,
                     !.department = <<"d">>, !.sport = sport, !.contact = <<"7">>,
                     !.email = email, !.studentCount = <<"3">>]

ReqDeleteManagers(id) == [BlankReq EXCEPT !.op = "DELETE /api/managers/:id", !.id = id]

ReqLogin(email, contact) ==
    [BlankReq EXCEPT !.op = "POST /api/managers/login", !.email = email,
                     !.contact = contact]

ReqPostSports(name) == [BlankReq EXCEPT !.op = "POST /api/sports", !.name = name]

ReqDeleteSports(id) == [BlankReq EXCEPT !.op = "DELETE /api/sports/:id", !.id = id]

ReqPostStudents(prn, managerId) ==
    [BlankReq EXCEPT !.op = "POST /api/students", !.name = <<"n">>, !.prn = prn,
                     !.contact = <<"7">>, !.birthDate = <<2000, 1, 1>>,
                     !.managerId = managerId]

ReqPutStudents(id, prn) ==
    [BlankReq EXCEPT !.op = "PUT /api/students/:id", !.id = id, !.name = <<"n">>,
                     !.prn = prn, !.contact = <<"7">>, !.birthDate = <<2000, 1, 1>>]

\* A request of a route that reads nothing but the id of its path.
ReqById(op, id) == [BlankReq EXCEPT !.op = op, !.id = id]

ReqPostCoaches(managerId) ==
    [BlankReq EXCEPT !.op = "POST /api/coaches", !.name = <<"n">>,
                     !.contact = <<"7">>, !.managerId = managerId]

ReqToggle(studentId, managerId, flag) ==
    [BlankReq EXCEPT !.op = "POST /api/student-selections/toggle",
                     !.studentId = studentId, !.managerId = managerId, !.flag = flag]

ReqPostLinks(managerId) ==
    [BlankReq EXCEPT !.op = "POST /api/student-links", !.managerId = managerId]

ReqGetLinkByToken(token) ==
    [BlankReq EXCEPT !.op = "GET /api/student-links/token/:token", !.token = token]

ReqSubmitLink(token, prn) ==
    [BlankReq EXCEPT !.op = "POST /api/student-links/submit", !.token = token,
                     !.name = <<"n">>, !.prn = prn, !.contact = <<"7">>,
                     !.birthDate = <<2000, 1, 1>>]

ReqPutLinks(id, flag) ==
    [BlankReq EXCEPT !.op = "PUT /api/student-links/:id", !.id = id, !.flag = flag]

ReqPostTeams(name, file) ==
    [BlankReq EXCEPT !.op = "POST /api/teams", !.name = name, !.department = <<"d">>,
                     !.file = file]

ReqPutTeams(id, name, file) ==
    [BlankReq EXCEPT !.op = "PUT /api/teams/:id", !.id = id, !.name = name,
                     !.department = <<"d">>, !.file = file]

ReqDeleteTeams(id) == [BlankReq EXCEPT !.op = "DELETE /api/teams/:id", !.id = id]

ReqTeamImagesUpload(name, file) ==
    [BlankReq EXCEPT !.op = "POST /api/team-images/upload", !.name = name,
                     !.sport = <<"q">>, !.file = file]

ReqPutTeamImages(id, file) ==
    [BlankReq EXCEPT !.op = "PUT /api/team-images/:id", !.id = id, !.name = <<"n">>,
                     !.sport = <<"q">>, !.file = file]

ReqPostEventImages(order, file) ==
    [BlankReq EXCEPT !.op = "POST /api/event-images", !.title = <<"e">>,
                     !.displayOrder = order, !.file = file]

ReqPutEventImages(id, order, file) ==
    [BlankReq EXCEPT !.op = "PUT /api/event-images/:id", !.id = id, !.title = <<"e">>,
                     !.displayOrder = order, !.file = file]

ReqPostNotices(title, file, file2) ==
    [BlankReq EXCEPT !.op = "POST /api/notices", !.title = title,
                     !.description = <<"d">>, !.noticeDate = <<2026, 1, 15>>,
                     !.file = file, !.file2 = file2]

ReqPutNotices(id, title, file, file2) ==
    [BlankReq EXCEPT !.op = "PUT /api/notices/:id", !.id = id, !.title = title,
                     !.description = <<"d">>, !.noticeDate = <<2026, 1, 15>>,
                     !.file = file, !.file2 = file2]

\* Rows present when a behaviour starts (earlier requests created them).
Manager1 == [id |-> 1, name |-> <<"n">>, department |-> <<"d">>, sport |-> <<"q">>,
             contact |-> <<"7">>, email |-> EmailA, studentCount |-> 3, teamId |-> 0,
             createdAt |-> 1]
Team1 == [id |-> 1, name |-> <<"t">>, department |-> <<"d">>, logo |-> 0,
          color |-> DefaultColor]
Sport1 == [id |-> 1, name |-> <<"s">>, description |-> Null]
Student1 == [id |-> 1, name |-> <<"n">>, prn |-> <<"o">>, contact |-> <<"7">>,
             birthDate |-> <<2000, 1, 1>>, age |-> 26, managerId |-> 1,
             linkToken |-> Null, createdAt |-> 1]
Link1 == [id |-> 1, managerId |-> 1, token |-> <<"t">>, isActive |-> "TRUE",
          createdAt |-> 1]

\* AUTO_INCREMENT of a table holding the rows.
AutoIncrement(rows) ==
    IF rows = {} THEN 1
    ELSE 1 + (CHOOSE n \in {x.id : x \in rows} : \A x \in rows : x.id <= n)

\* The server after start-up over a database that has the given part of
\* ExtraSchema and holds the given rows; no request has arrived and no pool
\* connection is checked out.
Started(extra, m, t, sp, st, l) ==
    /\ managers = m
    /\ teams = t
    /\ sports = sp
    /\ students = st
    /\ links = l
    /\ coaches = {}
    /\ selections = {}
    /\ eventImages = {}
    /\ notices = {}
    /\ extraSchema = extra
    /\ now = 1
    /\ teamImages = <<>>
    /\ teamImagesFile = FALSE
    /\ files = {}
    /\ nextFile = 1
    /\ nextId = [tb \in Tables |->
                   CASE tb = "managers" -> AutoIncrement(m)
                     [] tb = "teams" -> AutoIncrement(t)
                     [] tb = "sports" -> AutoIncrement(sp)
                     [] tb = "students" -> AutoIncrement(st)
                     [] tb = "student_links" -> AutoIncrement(l)
                     [] OTHER -> 1]
    /\ pool = 0
    /\ reqs = <<>>

\* Every received request has been answered.
Quiet == \A j \in DOMAIN reqs : reqs[j].status # 0

\* A request arrives while no other is being served.
ArriveAlone(r) == Quiet /\ Arrive(r)

\* A pool connection is granted to a waiting request.
Connect == \E i \in DOMAIN reqs : Acquire(i)

----------------------------------------------------------------------------
(* Concurrent creation of managers, sports and students *)

InitCreate == Started(ExtraSchema, {Manager1}, {}, {}, {}, {Link1})

CreateRequests ==
    {ReqPostManagers(e, <<"q">>, <<"7">>, 0) : e \in {EmailA, EmailX}}
    \cup {ReqPostSports(n) : n \in {<<"k">>, <<" ", "k">>, <<"\t", "K">>, <<"U+212A">>}}
    \cup {ReqPostStudents(p, m) : p \in {<<"p">>, <<"p", " ">>}, m \in 1..MaxId}
    \cup {ReqSubmitLink(<<"t">>, <<"p">>)}

ArriveCreate == \E r \in CreateRequests : Arrive(r)
StepPostManagers == \E i \in DOMAIN reqs : PostManagers(i)
StepPostSports == \E i \in DOMAIN reqs : PostSports(i)
StepPostStudents == \E i \in DOMAIN reqs : PostStudents(i)
StepSubmitLink == \E i \in DOMAIN reqs : SubmitLink(i)

NextCreate ==
    \/ ArriveCreate
    \/ Connect
    \/ StepPostManagers
    \/ StepPostSports
    \/ StepPostStudents
    \/ StepSubmitLink

SpecCreate == InitCreate /\ [][NextCreate]_vars

CreateOps == {"POST /api/managers", "POST /api/sports", "POST /api/students",
              "POST /api/student-links/submit"}

\* The value a create request supplies for the unique key of its table.
CreateKey(r) ==
    IF r.op = "POST /api/managers" THEN Trim(r.email)
    ELSE IF r.op = "POST /api/sports" THEN Trim(r.name)
    ELSE Trim(r.prn)

CreateTable(r) ==
    IF r.op = "POST /api/managers" THEN "managers"
    ELSE IF r.op = "POST /api/sports" THEN "sports"
    ELSE "students"

\* Ids of the rows of the table that hold the key.
RowsKeyed(tb, key) ==
    IF tb = "managers" THEN {m.id : m \in {x \in managers : DbEq(x.email, key)}}
    ELSE IF tb = "sports" THEN {m.id : m \in {x \in sports : DbEq(x.name, key)}}
    ELSE {m.id : m \in {x \in students : DbEq(x.prn, key)}}

\* The insert of the request was not refused for naming a manager that does
\* not exist.
ValidReference(r) == r.err # "ER_NO_REFERENCED_ROW_2"

DuplicateMessages == {"Email already exists", "Sport name already exists",
                      "PRN/UID already exists"}

\* Request j is another create request for the table and the key of request i.
SameKey(i, j) ==
    /\ j # i
    /\ reqs[i].op \in CreateOps /\ reqs[j].op \in CreateOps
    /\ CreateTable(reqs[j]) = CreateTable(reqs[i])
    /\ DbEq(CreateKey(reqs[j]), CreateKey(reqs[i]))

\* C1: of the create requests (managers, sports, students, link submit) that
\* are interleaved with another one carrying the same unique key, at most one
\* is answered 201, every other one is answered 400 with the duplicate
\* message, never 500, and once a request is answered exactly one row holds
\* its key.
C1_UniqueUnderConcurrency ==
    \A i \in DOMAIN reqs :
        LET r == reqs[i]
            rows == RowsKeyed(CreateTable(r), CreateKey(r))
        IN  (\E j \in DOMAIN reqs : SameKey(i, j)) =>
            /\ Cardinality(rows) <= 1
            /\ r.status # 0 =>
                  /\ r.status \in {201, 400}
                  /\ r.status = 400 => r.body \in DuplicateMessages
                  /\ Cardinality(rows) = 1
            /\ \A j \in DOMAIN reqs :
                  (SameKey(i, j) /\ r.status = 201) => reqs[j].status # 201

\* The same for the create requests, alone or interleaved, whose insert was
\* not refused for naming a manager that does not exist.
C1_UniqueWithExistingManager ==
    \A i \in DOMAIN reqs :
        LET r == reqs[i]
            rows == RowsKeyed(CreateTable(r), CreateKey(r))
        IN  r.op \in CreateOps =>
            /\ Cardinality(rows) <= 1
            /\ (r.status # 0 /\ ValidReference(r)) =>
                  /\ r.status \in {201, 400}
                  /\ r.status = 400 => r.body \in DuplicateMessages
                  /\ Cardinality(rows) = 1
            /\ \A j \in DOMAIN reqs :
                  (SameKey(i, j) /\ r.status = 201) => reqs[j].status # 201

\* Two requests for the same new e-mail both passed the existence check; the
\* insert of one was refused by the unique index.
C1_Witness ==
    \E i, j \in DOMAIN reqs :
        /\ reqs[i].op = "POST /api/managers" /\ reqs[j].op = "POST /api/managers"
        /\ reqs[i].email = EmailX /\ reqs[j].email = EmailX
        /\ reqs[i].status = 201
        /\ reqs[j].status = 400 /\ reqs[j].err = "ER_DUP_ENTRY"
        /\ Cardinality({m \in managers : m.email = EmailX}) = 1

----------------------------------------------------------------------------
(* Teams and the managers that belong to them *)

\* The teams table with the column color, or as initializeDatabase creates it.
InitTeams ==
    \E extra \in {{}, ExtraSchema} :
        Started(extra, {[Manager1 EXCEPT !.teamId = 1]}, {Team1}, {}, {}, {})

TeamRequests ==
    {ReqPostTeams(n, f) : n \in {<<"u">>, <<" ", "u">>}, f \in {NoFile, Png}}
    \cup {ReqPutTeams(id, <<"u">>, NoFile) : id \in 1..MaxId}
    \cup {ReqDeleteTeams(id) : id \in 1..MaxId}
    \cup {ReqPostManagers(EmailX, <<"q">>, <<"7">>, 1)}

ArriveTeams == \E r \in TeamRequests : Arrive(r)
StepPostTeams == \E i \in DOMAIN reqs : PostTeams(i)
StepPutTeams == \E i \in DOMAIN reqs : PutTeams(i)
StepDeleteTeams == \E i \in DOMAIN reqs : DeleteTeams(i)

NextTeams ==
    \/ ArriveTeams
    \/ Connect
    \/ StepPostTeams
    \/ StepPutTeams
    \/ StepDeleteTeams
    \/ StepPostManagers

SpecTeams == InitTeams /\ [][NextTeams]_vars

\* C2: in every reachable state no two Team rows have the same name.
C2_TeamNameUnique ==
    \A t1, t2 \in teams : DbEq(t1.name, t2.name) => t1 = t2

\* C6: the step in which DELETE /api/teams/:id removes the row answers 200,
\* removes the team, keeps every manager row and changes in them only the
\* teamId of the managers of that team, which becomes null; the request is
\* answered 404 only if the team did not exist when it looked the team up.
C6_TeamDeleteSetsNull ==
    [][\A i \in DOMAIN reqs :
          (reqs[i].op = "DELETE /api/teams/:id" /\ reqs[i].status = 0
             /\ reqs'[i].status # 0) =>
            IF reqs[i].pc = "q2"
            THEN /\ reqs'[i].status = 200
                 /\ ~\E t \in teams' : t.id = reqs[i].id
                 /\ {m.id : m \in managers'} = {m.id : m \in managers}
                 /\ \A m \in managers : \E n \in managers' :
                       /\ n.id = m.id
                       /\ n = [m EXCEPT !.teamId = IF m.teamId = reqs[i].id THEN 0 ELSE @]
            ELSE /\ reqs'[i].status = 404
                 /\ ~\E t \in teams : t.id = reqs[i].id
                 /\ managers' = managers
      ]_vars

\* Team 1, to which manager 1 belonged, was deleted with 200: the manager row
\* is still there and its teamId is null.
C6_Witness ==
    /\ \E i \in DOMAIN reqs :
          /\ reqs[i].op = "DELETE /api/teams/:id" /\ reqs[i].id = 1
          /\ reqs[i].status = 200
    /\ ~\E t \in teams : t.id = 1
    /\ \E m \in managers : m.id = 1 /\ m.teamId = 0

----------------------------------------------------------------------------
(* Uploads: team images, team logos, event images and notices, one request *)
(* at a time                                                               *)

EventImage1 == [id |-> 1, title |-> <<"e">>, description |-> Null, imageUrl |-> 1,
                displayOrder |-> 0, createdAt |-> 1]
Notice1 == [id |-> 1, title |-> <<"e">>, description |-> <<"d">>, documentUrl |-> 2,
            scheduleImageUrl |-> 0, noticeDate |-> <<2026, 1, 15>>, createdAt |-> 1]
TeamImage1 == [id |-> 1, imageUrl |-> 3, teamName |-> <<"n">>, sport |-> <<"q">>,
               filename |-> 3]

InitUploads ==
    /\ managers = {}
    /\ teams = {Team1}
    /\ sports = {}
    /\ students = {}
    /\ links = {}
    /\ coaches = {}
    /\ selections = {}
    /\ eventImages = {EventImage1}
    /\ notices = {Notice1}
    /\ extraSchema = ExtraSchema
    /\ now = 1
    /\ teamImages = <<TeamImage1>>
    /\ teamImagesFile = TRUE
    /\ files = {1, 2, 3}
    /\ nextFile = 4
    /\ nextId = [tb \in Tables |->
                   IF tb \in {"teams", "event_images", "notices", "team_images"}
                   THEN 2 ELSE 1]
    /\ pool = 0
    /\ reqs = <<>>

UploadRequests ==
    {ReqTeamImagesUpload(n, f) : n \in {<<"n">>, Null}, f \in {Png, Exe}}
    \cup {ReqTeamImagesUpload(<<"n">>, NoFile)}
    \cup {ReqPutTeamImages(id, f) : id \in 1..MaxId, f \in {NoFile, Png, BigPng}}
    \cup {ReqPostTeams(n, f) : n \in {<<"u">>, <<"t">>}, f \in {Png, Exe}}
    \cup {ReqPostTeams(Null, Png)}
    \cup {ReqPutTeams(id, n, f) : id \in 1..MaxId, n \in {<<"u">>}, f \in {Png, BigPng}}
    \cup {ReqPostEventImages(o, Png) : o \in {Null, <<"x">>}}
    \cup {ReqPostEventImages(Null, Exe)}
    \cup {ReqPutEventImages(id, o, Png) : id \in 1..MaxId, o \in {Null, <<"x">>}}
    \cup {ReqPutEventImages(1, Null, BigPng)}
    \cup {ReqPostNotices(<<"e">>, Pdf, f2) : f2 \in {Png, BigPng}}
    \cup {ReqPostNotices(<<"e">>, Png, NoFile), ReqPostNotices(Null, Pdf, Png)}
    \cup {ReqPostNotices(<<"e">>, Exe, NoFile)}
    \cup {ReqPutNotices(id, <<"e">>, Pdf, Png) : id \in 1..MaxId}
    \cup {ReqPutNotices(1, Null, Pdf, NoFile), ReqPutNotices(1, <<"e">>, Pdf, Exe)}
    \cup {ReqTeamImagesUpload(<<"n">>, [Png EXCEPT !.ext = e]) :
             e \in {<<".", "P", "N", "G">>, <<".", "G", "U+0130", "F">>}}
    \cup {[r EXCEPT !.fsError = TRUE] :
             r \in {ReqTeamImagesUpload(Null, Png), ReqPostEventImages(<<"x">>, Png),
                    ReqPutEventImages(1, <<"x">>, Png), ReqPostNotices(Null, Pdf, Png)}}

ArriveUploads == \E r \in UploadRequests : ArriveAlone(r)
StepTeamImagesUpload == \E i \in DOMAIN reqs : TeamImagesUpload(i)
StepPutTeamImages == \E i \in DOMAIN reqs : PutTeamImages(i)
StepPostEventImages == \E i \in DOMAIN reqs : PostEventImages(i)
StepPutEventImages == \E i \in DOMAIN reqs : PutEventImages(i)
StepPostNotices == \E i \in DOMAIN reqs : PostNotices(i)
StepPutNotices == \E i \in DOMAIN reqs : PutNotices(i)

NextUploads ==
    \/ ArriveUploads
    \/ Connect
    \/ StepTeamImagesUpload
    \/ StepPutTeamImages
    \/ StepPostTeams
    \/ StepPutTeams
    \/ StepPostEventImages
    \/ StepPutEventImages
    \/ StepPostNotices
    \/ StepPutNotices

SpecUploads == InitUploads /\ [][NextUploads]_vars

\* The request ended without its metadata write completing.
WriteNotCompleted(r) == r.status \notin {0, 200, 201}

\* C3: when a create or update request that accepts an upload ends without
\* its metadata write completing, the files written for it are no longer on
\* disk.
C3_NoOrphanFile ==
    \A i \in DOMAIN reqs :
        WriteNotCompleted(reqs[i]) =>
            reqs[i].stored \notin files /\ reqs[i].stored2 \notin files

\* The verdict of the route's upload middleware on the parts of the request.
UploadRejected(r) ==
    IF r.op \in {"POST /api/notices", "PUT /api/notices/:id"}
    THEN \/ r.file.present /\ (r.file.big \/ r.file.mime # PdfMime)
         \/ r.file2.present /\ (r.file2.big \/ ~ScheduleFilter(r.file2))
    ELSE r.file.present /\ (r.file.big \/ ~ImageFilter(r.file))

\* C4: the step that serves a request whose upload is rejected for its type
\* or size answers the request and leaves the uploads directory, every table
\* and the team-images records as they were; no file is recorded for it.
C4_RejectedUploadLeavesNothing ==
    [][\A i \in DOMAIN reqs :
          (reqs[i].pc = "start" /\ UploadRejected(reqs[i]) /\ reqs'[i] # reqs[i]) =>
              /\ reqs'[i].status # 0
              /\ reqs'[i].stored = 0 /\ reqs'[i].stored2 = 0
              /\ files' = files
              /\ teamImages' = teamImages
              /\ dbvars' = dbvars
      ]_vars

\* A notice request whose document was accepted and whose schedule image
\* was over the size limit has been answered; so has an image of a
\* disallowed type on another route.
C4_Witness ==
    /\ \E i \in DOMAIN reqs :
          /\ reqs[i].op = "POST /api/notices" /\ reqs[i].status # 0
          /\ reqs[i].file = Pdf /\ reqs[i].file2 = BigPng
    /\ \E j \in DOMAIN reqs :
          /\ reqs[j].op # "POST /api/notices" /\ reqs[j].status # 0
          /\ reqs[j].file = Exe

\* C18: a request whose upload was rejected for its size or type has been
\* answered with status 400.
C18_RejectedUploadIs400 ==
    \A i \in DOMAIN reqs :
        (UploadRejected(reqs[i]) /\ reqs[i].status # 0) => reqs[i].status = 400

\* The allow-lists: extensions and mime types of images, and of documents.
ImageExtensions ==
    {<<".", "j", "p", "e", "g">>, <<".", "j", "p", "g">>, <<".", "p", "n", "g">>,
     <<".", "g", "i", "f">>, <<".", "w", "e", "b", "p">>}
ImageMimes ==
    {<<"i", "m", "a", "g", "e", "/">> \o e : e \in {Tail(x) : x \in ImageExtensions}}
OnAllowList(f, document) ==
    IF document
    THEN ToLowerCase(f.ext) = <<".", "p", "d", "f">> /\ f.mime = PdfMime
    ELSE ToLowerCase(f.ext) \in ImageExtensions /\ f.mime \in ImageMimes

\* C19: every file a request stored in the uploads directory has an
\* extension and a declared mime type on the allow-list of its field.
C19_StoredFilesOnAllowList ==
    \A i \in DOMAIN reqs :
        /\ reqs[i].stored \in files =>
               OnAllowList(reqs[i].file,
                           reqs[i].op \in {"POST /api/notices", "PUT /api/notices/:id"})
        /\ reqs[i].stored2 \in files => OnAllowList(reqs[i].file2, FALSE)

----------------------------------------------------------------------------
(* Managers and the rows they own *)

Manager2 == [Manager1 EXCEPT !.id = 2, !.email = EmailX]
Coach1 == [id |-> 1, name |-> <<"n">>, contact |-> <<"7">>, managerId |-> 1,
           createdAt |-> 1]
Selection1 == [id |-> 1, studentId |-> 1, managerId |-> 2, isSelected |-> TRUE,
               createdAt |-> 1, updatedAt |-> 1]

InitCascade ==
    /\ managers = {Manager1, Manager2}
    /\ teams = {}
    /\ sports = {}
    /\ students = {Student1}
    /\ links = {}
    /\ coaches = {Coach1}
    /\ selections = {Selection1}
    /\ eventImages = {}
    /\ notices = {}
    /\ extraSchema = ExtraSchema
    /\ now = 1
    /\ teamImages = <<>>
    /\ teamImagesFile = FALSE
    /\ files = {}
    /\ nextFile = 1
    /\ nextId = [tb \in Tables |->
                   IF tb = "managers" THEN 3
                   ELSE IF tb \in {"students", "coaches", "student_selections"} THEN 2
                   ELSE 1]
    /\ pool = 0
    /\ reqs = <<>>

CascadeRequests ==
    {ReqDeleteManagers(id) : id \in 1..MaxId}
    \cup {ReqPostStudents(<<"p">>, m) : m \in 1..MaxId}
    \cup {ReqPostCoaches(m) : m \in 1..MaxId}
    \cup {ReqToggle(1, m, "true") : m \in 1..MaxId}

ArriveCascade == \E r \in CascadeRequests : Arrive(r)
StepDeleteManagers == \E i \in DOMAIN reqs : DeleteManagers(i)
StepPostCoaches == \E i \in DOMAIN reqs : PostCoaches(i)
StepToggle == \E i \in DOMAIN reqs : Toggle(i)

NextCascade ==
    \/ ArriveCascade
    \/ Connect
    \/ StepDeleteManagers
    \/ StepPostStudents
    \/ StepPostCoaches
    \/ StepToggle

SpecCascade == InitCascade /\ [][NextCascade]_vars

\* Every student, coach and selection row names an existing manager, and
\* every selection row an existing student.
ReferencesExist ==
    /\ \A s \in students : \E m \in managers : m.id = s.managerId
    /\ \A c \in coaches : \E m \in managers : m.id = c.managerId
    /\ \A x \in selections :
          /\ \E m \in managers : m.id = x.managerId
          /\ \E st \in students : st.id = x.studentId

\* C5: once DELETE /api/managers/:id has answered 200, no student, coach or
\* selection row with that managerId remains; and in every reachable state
\* the rows that name a manager (or a student) name an existing one.
C5_ManagerDeleteCascades ==
    /\ ReferencesExist
    /\ \A i \in DOMAIN reqs :
          (reqs[i].op = "DELETE /api/managers/:id" /\ reqs[i].status = 200) =>
              /\ ~\E m \in managers : m.id = reqs[i].id
              /\ ~\E s \in students : s.managerId = reqs[i].id
              /\ ~\E c \in coaches : c.managerId = reqs[i].id
              /\ ~\E x \in selections : x.managerId = reqs[i].id

\* Manager 1, who owned a student (selected by manager 2) and a coach, was
\* deleted with 200: the three rows are gone, manager 2 is still there.
C5_Witness ==
    /\ \E i \in DOMAIN reqs :
          /\ reqs[i].op = "DELETE /api/managers/:id" /\ reqs[i].id = 1
          /\ reqs[i].status = 200
    /\ Student1 \notin students /\ Coach1 \notin coaches
    /\ Selection1 \notin selections
    /\ Manager2 \in managers

----------------------------------------------------------------------------
(* Sports and the managers that name them *)

\* The sport manager 1 names; sport 1 is named by no manager.
Sport2 == [id |-> 2, name |-> Manager1.sport, description |-> Null]

InitSports == Started(ExtraSchema, {Manager1}, {}, {Sport1, Sport2}, {}, {})

SportRequests ==
    {ReqDeleteSports(id) : id \in 1..(MaxId + 1)}
    \cup {ReqPostManagers(EmailX, sp, <<"7">>, 0) : sp \in {<<"s">>, <<"q">>}}
    \cup {ReqPutManagers(id, EmailA, sp) : id \in 1..MaxId, sp \in {<<"s">>, <<"q">>}}

ArriveSports == \E r \in SportRequests : Arrive(r)
ArriveSportsAlone == \E r \in SportRequests : ArriveAlone(r)
StepDeleteSports == \E i \in DOMAIN reqs : DeleteSports(i)
StepPutManagers == \E i \in DOMAIN reqs : PutManagers(i)

\* One request at a time.
NextSportsSeq ==
    \/ ArriveSportsAlone
    \/ Connect
    \/ StepDeleteSports
    \/ StepPostManagers
    \/ StepPutManagers

SpecSportsSeq == InitSports /\ [][NextSportsSeq]_vars

\* Requests served concurrently.
NextSports ==
    \/ ArriveSports
    \/ Connect
    \/ StepDeleteSports
    \/ StepPostManagers
    \/ StepPutManagers

SpecSports == InitSports /\ [][NextSports]_vars

\* The sport with the id, if a manager row names it.
SportInUse(id) ==
    \E x \in sports : x.id = id /\ \E m \in managers : DbEq(m.sport, x.name)

\* C7: DELETE /api/sports/:id on an existing sport that a manager row names
\* is answered 400 and leaves the sports and the managers unchanged; on an
\* existing sport that no manager names it is answered 200 and the row is
\* deleted.
C7_SportDeleteBlockedWhileInUse ==
    [][\A i \in DOMAIN reqs :
          (/\ reqs[i].op = "DELETE /api/sports/:id"
           /\ reqs[i].status = 0 /\ reqs'[i].status # 0
           /\ \E x \in sports : x.id = reqs[i].id) =>
              IF SportInUse(reqs[i].id)
              THEN /\ reqs'[i].status = 400
                   /\ sports' = sports
                   /\ managers' = managers
              ELSE /\ reqs'[i].status = 200
                   /\ sports' = {x \in sports : x.id # reqs[i].id}
                   /\ managers' = managers
      ]_vars

\* The delete of sport 2, which manager 1 names, was answered 400 and the
\* row is there; the delete of sport 1 was answered 200 and the row is gone.
C7_Witness ==
    /\ \E i \in DOMAIN reqs :
          /\ reqs[i].op = "DELETE /api/sports/:id" /\ reqs[i].id = 2
          /\ reqs[i].status = 400
    /\ \E j \in DOMAIN reqs :
          /\ reqs[j].op = "DELETE /api/sports/:id" /\ reqs[j].id = 1
          /\ reqs[j].status = 200
    /\ sports = {Sport2}
    /\ Manager1 \in managers

\* The id of the manager row a finished manager request wrote.
WrittenManager(r) == IF r.op = "POST /api/managers" THEN r.insertId ELSE r.id

\* C8: when DELETE /api/sports/:id answers 200, no manager row written by a
\* POST or PUT that was answered before names the deleted sport.
C8_NoDeleteWhileInUse ==
    [][\A i \in DOMAIN reqs :
          (/\ reqs[i].op = "DELETE /api/sports/:id"
           /\ reqs[i].status = 0 /\ reqs'[i].status = 200) =>
              ~\E j \in DOMAIN reqs, x \in sports, m \in managers' :
                  /\ reqs[j].op \in {"POST /api/managers", "PUT /api/managers/:id"}
                  /\ reqs[j].status \in {200, 201}
                  /\ x.id = reqs[i].id
                  /\ m.id = WrittenManager(reqs[j])
                  /\ DbEq(m.sport, x.name)
      ]_vars

----------------------------------------------------------------------------
(* Student links: activation, look-up by token and submission *)

\* A deactivated link of manager 1.
Link2 == [id |-> 2, managerId |-> 1, token |-> <<"u">>, isActive |-> "FALSE",
          createdAt |-> 1]

InitLinks ==
    \E extra \in {ExtraSchema, ExtraSchema \cup {IsActiveNotNull}} :
        Started(extra, {Manager1}, {}, {}, {}, {Link1, Link2})

\* <<"v">> is the token of no link.
LinkRequests ==
    {ReqPutLinks(id, f) : id \in 1..MaxId, f \in {"true", "false", "none"}}
    \cup {ReqGetLinkByToken(t) : t \in {<<"t">>, <<"u">>, <<"v">>}}
    \cup {ReqSubmitLink(t, <<"p">>) : t \in {<<"t">>, <<"u">>, <<"v">>, Null}}

ArriveLinks == \E r \in LinkRequests : Arrive(r)
StepPutLinks == \E i \in DOMAIN reqs : PutLinks(i)
StepGetLinkByToken == \E i \in DOMAIN reqs : GetLinkByToken(i)

NextLinks ==
    \/ ArriveLinks
    \/ Connect
    \/ StepPutLinks
    \/ StepGetLinkByToken
    \/ StepSubmitLink

SpecLinks == InitLinks /\ [][NextLinks]_vars

\* A link row holds the token and is not active.
InactiveToken(token) == \E l \in links : DbEq(l.token, token) /\ l.isActive = "FALSE"

\* No link row holds the token.
UnknownToken(token) == ~\E l \in links : DbEq(l.token, token)

NotFoundBody(op) ==
    IF op = "GET /api/student-links/token/:token" THEN "Link not found or inactive"
    ELSE "Invalid or inactive link"

\* C9: when GET /api/student-links/token/:token or POST
\* /api/student-links/submit looks up a token whose link is inactive, the
\* request is answered 404 with the body an unknown token gets, and no
\* student row is created; a submit without a token is answered 400.
C9_InactiveLinkRejected ==
    [][\A i \in DOMAIN reqs :
          (/\ reqs[i].op \in {"GET /api/student-links/token/:token",
                               "POST /api/student-links/submit"}
           /\ reqs[i].status = 0
           /\ reqs'[i] # reqs[i]) =>
              /\ (reqs[i].pc = "q1"
                    /\ (InactiveToken(reqs[i].token) \/ UnknownToken(reqs[i].token))) =>
                    /\ reqs'[i].status = 404
                    /\ reqs'[i].body = NotFoundBody(reqs[i].op)
                    /\ students' = students
              /\ (reqs[i].pc = "start" /\ Falsy(reqs[i].token)
                    /\ reqs[i].op = "POST /api/student-links/submit") =>
                    /\ reqs'[i].status = 400
                    /\ students' = students
      ]_vars

\* The link with token u is inactive; a GET and a submit with that token
\* were both answered 404 and no student was created.
C9_Witness ==
    /\ \E l \in links : l.token = <<"u">> /\ l.isActive = "FALSE"
    /\ \E i \in DOMAIN reqs :
          /\ reqs[i].op = "GET /api/student-links/token/:token"
          /\ reqs[i].token = <<"u">> /\ reqs[i].status = 404
    /\ \E j \in DOMAIN reqs :
          /\ reqs[j].op = "POST /api/student-links/submit"
          /\ reqs[j].token = <<"u">> /\ reqs[j].status = 404
    /\ students = {}

----------------------------------------------------------------------------
(* Manager login *)

InitLogin == Started(ExtraSchema, {Manager1}, {}, {}, {}, {})

LoginRequests ==
    {ReqLogin(e, c) : e \in {EmailA, EmailX},
                      c \in {<<"7">>, <<"8">>, <<"7", " ">>, <<"7", "U+00A0">>}}
    \cup {ReqPostManagers(EmailX, <<"q">>, <<"8">>, 0)}
    \cup {ReqDeleteManagers(id) : id \in 1..MaxId}

ArriveLogin == \E r \in LoginRequests : Arrive(r)
StepLogin == \E i \in DOMAIN reqs : Login(i)

NextLogin ==
    \/ ArriveLogin
    \/ Connect
    \/ StepLogin
    \/ StepPostManagers
    \/ StepDeleteManagers

SpecLogin == InitLogin /\ [][NextLogin]_vars

\* No manager row holds both the e-mail and the contact number.
NoSuchPair(email, contact) ==
    ~\E m \in managers : DbEq(m.email, email) /\ DbEq(m.contact, contact)

\* C10: a login is never answered 404, and a login whose e-mail and contact
\* number match no manager row is answered 401 with one fixed body in every
\* database state, whether or not a manager has the e-mail.
C10_LoginDoesNotDisclose ==
    [][\A i \in DOMAIN reqs :
          (/\ reqs[i].op = "POST /api/managers/login"
           /\ reqs[i].status = 0
           /\ reqs'[i] # reqs[i]) =>
              /\ reqs'[i].status # 404
              /\ (reqs[i].pc = "q1" /\ NoSuchPair(reqs[i].email, reqs[i].contact)) =>
                    /\ reqs'[i].status = 401
                    /\ reqs'[i].body = "Invalid email or contact number"
      ]_vars

\* Two logins got the same answer: one with the e-mail of manager 1 and a
\* wrong contact number, one with an e-mail no manager has.
C10_Witness ==
    \E i, j \in DOMAIN reqs :
        /\ reqs[i].op = "POST /api/managers/login"
        /\ reqs[j].op = "POST /api/managers/login"
        /\ reqs[i].email = EmailA /\ reqs[i].contact = <<"8">>
        /\ Manager1 \in managers
        /\ reqs[j].email = EmailX
        /\ ~\E m \in managers : DbEq(m.email, EmailX)
        /\ reqs[i].status = 401 /\ reqs[j].status = 401
        /\ reqs[i].body = reqs[j].body

----------------------------------------------------------------------------
(* The age stored with a student, one request at a time *)

InitAge == Started(ExtraSchema, {Manager1}, {}, {}, {Student1}, {Link1})

\* Birth dates sent as "YYYY-MM-DD" and the server's local date and zone.
BirthDates == {<<2000, 6, 15>>, <<2000, 3, 1>>}
Todays == {<<2024, 6, 14>>, <<2024, 6, 15>>}
Zones == {"west", "utc", "east"}

AgeRequests ==
    {[r EXCEPT !.birthDate = b, !.today = d, !.tz = z] :
        r \in {ReqPostStudents(<<"p">>, 1), ReqPutStudents(1, <<"o">>),
               ReqSubmitLink(<<"t">>, <<"p">>)},
        b \in BirthDates, d \in Todays, z \in Zones}

ArriveAge == \E r \in AgeRequests : ArriveAlone(r)
StepPutStudents == \E i \in DOMAIN reqs : PutStudents(i)

NextAge ==
    \/ ArriveAge
    \/ Connect
    \/ StepPostStudents
    \/ StepPutStudents
    \/ StepSubmitLink

SpecAge == InitAge /\ [][NextAge]_vars

\* currentYear - birthYear, minus one exactly when (currentMonth, currentDay)
\* is lexicographically less than (birthMonth, birthDay).
AgeRule(birthDate, today) ==
    IF \/ today[2] < birthDate[2]
       \/ (today[2] = birthDate[2] /\ today[3] < birthDate[3])
    THEN today[1] - birthDate[1] - 1
    ELSE today[1] - birthDate[1]

\* C11: every student row that POST /api/students, PUT /api/students/:id or
\* POST /api/student-links/submit writes holds the age the rule gives for
\* the request's birth date and the current date.
C11_StoredAgeFollowsRule ==
    [][\A i \in DOMAIN reqs :
          (/\ reqs[i].op \in {"POST /api/students", "PUT /api/students/:id",
                              "POST /api/student-links/submit"}
           /\ reqs[i].status = 0
           /\ reqs'[i] # reqs[i]) =>
              \A s \in students' \ students :
                  s.age = AgeRule(reqs[i].birthDate, reqs[i].today)
      ]_vars

----------------------------------------------------------------------------
(* Student selections: concurrent toggles *)

\* The rows of InitCascade a second after they were written.
InitToggle ==
    /\ managers = {Manager1, Manager2}
    /\ teams = {}
    /\ sports = {}
    /\ students = {Student1}
    /\ links = {}
    /\ coaches = {Coach1}
    /\ selections = {Selection1}
    /\ eventImages = {}
    /\ notices = {}
    /\ extraSchema = ExtraSchema
    /\ now = 2
    /\ teamImages = <<>>
    /\ teamImagesFile = FALSE
    /\ files = {}
    /\ nextFile = 1
    /\ nextId = [tb \in Tables |->
                   IF tb = "managers" THEN 3
                   ELSE IF tb \in {"students", "coaches", "student_selections"} THEN 2
                   ELSE 1]
    /\ pool = 0
    /\ reqs = <<>>

ToggleRequests ==
    {ReqToggle(s, m, f) : s \in {1, 2}, m \in {1, 2}, f \in {"true", "false"}}
    \cup {ReqToggle(1, 1, "none"), ReqToggle(0, 1, "true")}

ArriveToggle == \E r \in ToggleRequests : Arrive(r)

NextToggle ==
    \/ ArriveToggle
    \/ Connect
    \/ Tick
    \/ StepToggle

SpecToggle == InitToggle /\ [][NextToggle]_vars

\* The selection rows of request r's (studentId, managerId) pair.
PairRows(rows, r) ==
    {x \in rows : x.studentId = r.studentId /\ x.managerId = r.managerId}

\* C12: a toggle answered with success leaves exactly one selection row for
\* its pair, holding the request's boolean; of a row the pair already had it
\* changes isSelected and no other column; the rows of other pairs are
\* untouched, and nothing but a successful toggle changes the table.
C12_ToggleUpserts ==
    [][/\ \A i \in DOMAIN reqs :
            (/\ reqs[i].op = "POST /api/student-selections/toggle"
             /\ reqs[i].status = 0
             /\ reqs'[i].status = 200) =>
                /\ Cardinality(PairRows(selections', reqs[i])) = 1
                /\ \A x \in PairRows(selections', reqs[i]) :
                       x.isSelected = (reqs[i].flag = "true")
                /\ \A x \in PairRows(selections, reqs[i]) :
                       [x EXCEPT !.isSelected = (reqs[i].flag = "true")] \in selections'
                /\ selections' \ PairRows(selections', reqs[i])
                      = selections \ PairRows(selections, reqs[i])
       /\ selections' # selections =>
             \E i \in DOMAIN reqs :
                 /\ reqs[i].op = "POST /api/student-selections/toggle"
                 /\ reqs[i].status = 0
                 /\ reqs'[i].status = 200
      ]_vars

\* C12, amended: the same, but of a row the pair already had the toggle
\* changes isSelected and, when the boolean changes, updatedAt, which becomes
\* the second of the update (ON UPDATE CURRENT_TIMESTAMP, database.js 120);
\* every other column keeps its value.
C12_ToggleUpsertsAndStamps ==
    [][/\ \A i \in DOMAIN reqs :
            (/\ reqs[i].op = "POST /api/student-selections/toggle"
             /\ reqs[i].status = 0
             /\ reqs'[i].status = 200) =>
                /\ Cardinality(PairRows(selections', reqs[i])) = 1
                /\ \A x \in PairRows(selections', reqs[i]) :
                       x.isSelected = (reqs[i].flag = "true")
                /\ \A x \in PairRows(selections, reqs[i]) :
                       [x EXCEPT !.isSelected = (reqs[i].flag = "true"),
                                 !.updatedAt = IF x.isSelected = (reqs[i].flag = "true")
                                               THEN @ ELSE now] \in selections'
                /\ selections' \ PairRows(selections', reqs[i])
                      = selections \ PairRows(selections, reqs[i])
       /\ selections' # selections =>
             \E i \in DOMAIN reqs :
                 /\ reqs[i].op = "POST /api/student-selections/toggle"
                 /\ reqs[i].status = 0
                 /\ reqs'[i].status = 200
      ]_vars

\* Pair (1, 1) was selected by a first toggle, which inserted its row, and
\* deselected by a second one a second later: one row holds the pair, with
\* the last boolean, next to the untouched row of pair (1, 2).
C12_Witness ==
    /\ Len(reqs) = 2
    /\ reqs[1] = Answer([ReqToggle(1, 1, "true") EXCEPT !.conn = "held", !.found = FALSE],
                        200, "toggled", 1)
    /\ reqs[2] = Answer([ReqToggle(1, 1, "false") EXCEPT !.conn = "held", !.found = TRUE],
                        200, "toggled", 1)
    /\ selections = {Selection1,
                     [id |-> 2, studentId |-> 1, managerId |-> 1, isSelected |-> FALSE,
                      createdAt |-> 2, updatedAt |-> 3]}

\* C13: a toggle whose INSERT meets a row that already holds its pair is
\* answered 400 and leaves exactly one row with the pair.
C13_SecondSelectionConflicts ==
    [][\A i \in DOMAIN reqs :
          (/\ reqs[i].op = "POST /api/student-selections/toggle"
           /\ reqs[i].pc = "q2"
           /\ ~reqs[i].found
           /\ PairRows(selections, reqs[i]) # {}
           /\ reqs'[i] # reqs[i]) =>
              /\ reqs'[i].status = 400
              /\ Cardinality(PairRows(selections', reqs[i])) = 1
      ]_vars

----------------------------------------------------------------------------
(* Unique keys written by concurrent creates and updates *)

EmailY == <<"y", "@", "b", ".", "c">>

ConflictRequests ==
    {ReqPutManagers(id, e, <<"q">>) : id \in 1..MaxId, e \in {EmailX, EmailY}}
    \cup {ReqPostManagers(EmailY, <<"q">>, <<"7">>, 0)}
    \cup {ReqPostStudents(<<"p">>, 1), ReqPutStudents(1, <<"p">>)}
    \cup {ReqPostSports(<<"s">>)}
    \cup {ReqToggle(1, 1, f) : f \in {"true", "false"}}

ArriveConflict == \E r \in ConflictRequests : Arrive(r)

NextConflict ==
    \/ ArriveConflict
    \/ Connect
    \/ StepPostManagers
    \/ StepPutManagers
    \/ StepPostStudents
    \/ StepPutStudents
    \/ StepPostSports
    \/ StepToggle

SpecConflict == InitCascade /\ [][NextConflict]_vars

\* C14: a request whose write the database refused with a duplicate-key
\* error is answered 400, on the create and update routes of managers,
\* sports and students and on the selection toggle.
C14_DuplicateKeyAnswered400 ==
    \A i \in DOMAIN reqs :
        reqs[i].err = "ER_DUP_ENTRY" => reqs[i].status = 400

----------------------------------------------------------------------------
(* Requests that name a manager or a student that does not exist *)

ReferenceRequests ==
    {ReqPostStudents(<<"p">>, 1), ReqPostStudents(<<"r">>, MaxId + 1)}
    \cup {ReqPostCoaches(m) : m \in {1, MaxId + 1}}
    \cup {ReqPostLinks(m) : m \in {1, MaxId + 1}}
    \cup {ReqToggle(s, m, "true") : s \in 1..MaxId, m \in {1, MaxId + 1}}

ArriveReference == \E r \in ReferenceRequests : ArriveAlone(r)
StepPostLinks == \E i \in DOMAIN reqs : PostLinks(i)

NextReference ==
    \/ ArriveReference
    \/ Connect
    \/ StepPostStudents
    \/ StepPostCoaches
    \/ StepPostLinks
    \/ StepToggle

SpecReference == InitCascade /\ [][NextReference]_vars

\* The request names a manager, or toggles a student, that has no row.
MissingReference(r) ==
    \/ ~\E m \in managers : m.id = r.managerId
    \/ /\ r.op = "POST /api/student-selections/toggle"
       /\ ~\E s \in students : s.id = r.studentId

\* C15: a request that names a manager or student without a row is answered
\* 404, and no row refers to the missing id.
C15_MissingReferenceIs404 ==
    /\ \A i \in DOMAIN reqs :
          (reqs[i].status # 0 /\ MissingReference(reqs[i])) => reqs[i].status = 404
    /\ \A x \in students \cup coaches \cup links :
          \E m \in managers : m.id = x.managerId

----------------------------------------------------------------------------
(* Deletes, one request at a time *)

InitDeletes ==
    /\ managers = {Manager1, Manager2}
    /\ teams = {Team1}
    /\ sports = {Sport1}
    /\ students = {Student1}
    /\ links = {Link1}
    /\ coaches = {Coach1}
    /\ selections = {Selection1}
    /\ eventImages = {EventImage1}
    /\ notices = {Notice1}
    /\ extraSchema = ExtraSchema
    /\ now = 1
    /\ teamImages = <<TeamImage1>>
    /\ teamImagesFile = TRUE
    /\ files = {1, 2, 3}
    /\ nextFile = 4
    /\ nextId = [tb \in Tables |-> IF tb = "managers" THEN 3 ELSE 2]
    /\ pool = 0
    /\ reqs = <<>>

DeleteOps ==
    {"DELETE /api/managers/:id", "DELETE /api/sports/:id", "DELETE /api/students/:id",
     "DELETE /api/coaches/:id", "DELETE /api/teams/:id", "DELETE /api/event-images/:id",
     "DELETE /api/notices/:id", "DELETE /api/student-links/:id",
     "DELETE /api/team-images/:id"}

DeleteRequests == {ReqById(op, id) : op \in DeleteOps, id \in {1, MaxId + 1}}

ArriveDeletes == \E r \in DeleteRequests : ArriveAlone(r)
StepDeleteStudents == \E i \in DOMAIN reqs : DeleteStudents(i)
StepDeleteCoaches == \E i \in DOMAIN reqs : DeleteCoaches(i)
StepDeleteEventImages == \E i \in DOMAIN reqs : DeleteEventImages(i)
StepDeleteNotices == \E i \in DOMAIN reqs : DeleteNotices(i)
StepDeleteLinks == \E i \in DOMAIN reqs : DeleteLinks(i)
StepDeleteTeamImages == \E i \in DOMAIN reqs : DeleteTeamImages(i)

NextDeletes ==
    \/ ArriveDeletes
    \/ Connect
    \/ StepDeleteManagers
    \/ StepDeleteSports
    \/ StepDeleteStudents
    \/ StepDeleteCoaches
    \/ StepDeleteTeams
    \/ StepDeleteEventImages
    \/ StepDeleteNotices
    \/ StepDeleteLinks
    \/ StepDeleteTeamImages

SpecDeletes == InitDeletes /\ [][NextDeletes]_vars

\* The ids of the rows or records the DELETE route of request r removes from.
IdsOf(r, m, sp, st, co, t, e, n, l, ti) ==
    {x.id : x \in CASE r.op = "DELETE /api/managers/:id" -> m
                    [] r.op = "DELETE /api/sports/:id" -> sp
                    [] r.op = "DELETE /api/students/:id" -> st
                    [] r.op = "DELETE /api/coaches/:id" -> co
                    [] r.op = "DELETE /api/teams/:id" -> t
                    [] r.op = "DELETE /api/event-images/:id" -> e
                    [] r.op = "DELETE /api/notices/:id" -> n
                    [] r.op = "DELETE /api/student-links/:id" -> l
                    [] OTHER -> ti}

\* C16: a DELETE for an id that has no row is answered 404 and changes no
\* row and no file; a DELETE is answered with success only when the row
\* existed and is gone afterwards.
C16_DeleteVerifiesExistence ==
    [][\A i \in DOMAIN reqs :
          (/\ reqs[i].op \in DeleteOps
           /\ reqs[i].status = 0
           /\ reqs'[i].status # 0) =>
              LET before == IdsOf(reqs[i], managers, sports, students, coaches, teams,
                                  eventImages, notices, links,
                                  {teamImages[k] : k \in DOMAIN teamImages})
                  after == IdsOf(reqs[i], managers', sports', students', coaches',
                                 teams', eventImages', notices', links',
                                 {teamImages'[k] : k \in DOMAIN teamImages'})
              IN /\ reqs[i].id \notin before =>
                       /\ reqs'[i].status = 404
                       /\ UNCHANGED <<dbvars, fsvars>>
                 /\ reqs'[i].status = 200 =>
                       /\ reqs[i].id \in before
                       /\ reqs[i].id \notin after
      ]_vars

----------------------------------------------------------------------------
(* Updates, one request at a time *)

PutRequests ==
    {ReqPutNotices(id, t, f, NoFile) :
        id \in {1, MaxId + 1}, t \in {Null, <<" ">>, <<"e">>}, f \in {NoFile, Pdf}}
    \cup {ReqPutLinks(id, f) : id \in {1, MaxId + 1}, f \in {"true", "false", "none"}}
    \cup {ReqPutStudents(id, p) : id \in {1, MaxId + 1}, p \in {<<"o">>, Null}}

ArrivePuts == \E r \in PutRequests : ArriveAlone(r)

NextPuts ==
    \/ ArrivePuts
    \/ Connect
    \/ StepPutNotices
    \/ StepPutLinks
    \/ StepPutStudents

SpecPuts == InitDeletes /\ [][NextPuts]_vars

\* C17: a PUT /api/notices/:id without a title, description or date POST
\* /api/notices would accept is answered 400 and never changes the notices
\* or removes a file a notice names, and a PUT /api/student-links/:id for an
\* id without row is answered 404.
C17_PutRevalidates ==
    [][\A i \in DOMAIN reqs :
          (reqs[i].status = 0 /\ reqs'[i] # reqs[i]) =>
              /\ (reqs[i].op = "PUT /api/notices/:id" /\ NoticeInvalid(reqs[i]) # "") =>
                    /\ reqs'[i].status \in {0, 400}
                    /\ notices' = notices
                    /\ \A x \in notices :
                          {x.documentUrl, x.scheduleImageUrl} \cap files \subseteq files'
              /\ (/\ reqs[i].op = "PUT /api/student-links/:id"
                  /\ reqs'[i].status # 0
                  /\ ~\E l \in links : l.id = reqs[i].id) =>
                    reqs'[i].status = 404
      ]_vars

----------------------------------------------------------------------------
(* Create, then fetch by id: sports, teams, event images and notices *)

InitRoundTrip == Started(ExtraSchema, {}, {}, {}, {}, {})

RoundTripRequests ==
    {[ReqPostSports(n) EXCEPT !.description = d] :
        n \in {<<"s">>, <<"\t", "s">>}, d \in {Null, <<"d", " ">>}}
    \cup {[ReqPostTeams(<<"u", " ">>, f) EXCEPT !.color = c] :
             f \in {NoFile, Png}, c \in {Null, <<"c">>, <<" ", "c">>}}
    \cup {[ReqPostEventImages(o, Png) EXCEPT !.title = t] :
             o \in {Null, <<"0", "x", "7">>}, t \in {Null, <<" ", "e">>}}
    \cup {ReqPostNotices(t, Pdf, NoFile) : t \in {<<"e">>, <<"e", " ">>}}
    \cup {ReqById(op, 1) : op \in {"GET /api/sports/:id", "GET /api/teams/:id",
                                     "GET /api/event-images/:id"}}
    \cup {[ReqById("GET /api/notices/:id", 1) EXCEPT !.tz = z] : z \in Zones}

ArriveRoundTrip == \E r \in RoundTripRequests : ArriveAlone(r)
StepGetSports == \E i \in DOMAIN reqs : GetSports(i)
StepGetTeams == \E i \in DOMAIN reqs : GetTeams(i)
StepGetEventImages == \E i \in DOMAIN reqs : GetEventImages(i)
StepGetNotices == \E i \in DOMAIN reqs : GetNotices(i)

NextRoundTrip ==
    \/ ArriveRoundTrip
    \/ Connect
    \/ StepPostSports
    \/ StepPostTeams
    \/ StepPostEventImages
    \/ StepPostNotices
    \/ StepGetSports
    \/ StepGetTeams
    \/ StepGetEventImages
    \/ StepGetNotices

SpecRoundTrip == InitRoundTrip /\ [][NextRoundTrip]_vars

\* The row a successful POST r submitted: text fields trimmed, omitted
\* optional fields at their defaults, with the id the POST returned.
Submitted(r) ==
    CASE r.op = "POST /api/sports" ->
            [id |-> r.insertId, name |-> Trim(r.name),
             description |-> TrimOrNull(r.description)]
      [] r.op = "POST /api/teams" ->
            [id |-> r.insertId, name |-> Trim(r.name),
             department |-> Trim(r.department), logo |-> r.stored,
             color |-> IF Falsy(r.color) THEN DefaultColor ELSE Trim(r.color)]
      [] r.op = "POST /api/event-images" ->
            [id |-> r.insertId, title |-> TrimOrNull(r.title),
             description |-> TrimOrNull(r.description), imageUrl |-> r.stored,
             displayOrder |-> IF Falsy(r.displayOrder) THEN 0
                              ELSE ParseInt(Trim(r.displayOrder))[1]]
      [] OTHER ->
            [id |-> r.insertId, title |-> Trim(r.title),
             description |-> Trim(r.description), documentUrl |-> r.stored,
             scheduleImageUrl |-> r.stored2, noticeDate |-> r.noticeDate]

\* The GET-by-id route of the entity a POST route creates.
GetOf(op) ==
    CASE op = "POST /api/sports" -> "GET /api/sports/:id"
      [] op = "POST /api/teams" -> "GET /api/teams/:id"
      [] op = "POST /api/event-images" -> "GET /api/event-images/:id"
      [] op = "POST /api/notices" -> "GET /api/notices/:id"
      [] OTHER -> "none"

\* C20: a GET of the id a successful POST returned, served right after the
\* POST, answers one row, which holds the values the POST submitted (next to
\* the timestamps the server assigned).
C20_CreateThenFetch ==
    \A i, j \in DOMAIN reqs :
        (/\ i < j
         /\ reqs[i].status = 201
         /\ reqs[j].op = GetOf(reqs[i].op)
         /\ reqs[j].id = reqs[i].insertId
         /\ reqs[j].status # 0) =>
            /\ reqs[j].status = 200
            /\ \E x \in reqs[j].result :
                  /\ reqs[j].result = {x}
                  /\ \A f \in DOMAIN Submitted(reqs[i]) : x[f] = Submitted(reqs[i])[f]

----------------------------------------------------------------------------
(* Lists: GET of a whole collection *)

\* The place of a primary weight in the order of the tables' collation
\* utf8mb4_unicode_ci, for the weights the names of the lists are made of:
\* the tab before the space, the space before the digits, the digits before
\* the letters.
Weight(ch) ==
    LET Alphabet == <<"\t", " ", "0", "1", "2", "3", "4", "5", "6", "7",
                      "8", "9", "a", "b", "c", "d", "e", "f", "g", "h", "i", "j",
                      "k", "l", "m", "n", "o", "p", "q", "r", "s", "t", "u", "v",
                      "w", "x", "y", "z">>
    IN  CHOOSE k \in DOMAIN Alphabet : Alphabet[k] = ch

\* a < b for two VARCHAR values under the tables' collation: the first
\* weight that differs decides, the shorter key being padded with the weight
\* of the space.
TextBefore(a, b) ==
    LET ka == CollationKey(a)
        kb == CollationKey(b)
        n == IF Len(ka) < Len(kb) THEN Len(kb) ELSE Len(ka)
        at(s, k) == IF k <= Len(s) THEN Weight(s[k]) ELSE Weight(" ")
    IN \E k \in 1..n :
          /\ at(ka, k) < at(kb, k)
          /\ \A j \in 1..(k - 1) : at(ka, j) = at(kb, j)

\* The results a SELECT ... ORDER BY may give: every row once, no row before
\* one the ORDER BY clause puts first; rows it does not tell apart come in
\* any order.
OrderByNothing(rows, before) ==
    {out \in [1..Cardinality(rows) -> rows] :
        \A x \in rows : \E k \in DOMAIN out : out[k] = x}

\* before holds the pairs <<a, b>> of rows of which the clause puts a first.
OrderBy(rows, before) ==
    {out \in [1..Cardinality(rows) -> rows] :
        /\ \A x \in rows : \E k \in DOMAIN out : out[k] = x
        /\ \A a, b \in DOMAIN out : a < b => <<out[b], out[a]>> \notin before}

\* ORDER BY createdAt DESC: createdAt TIMESTAMP DEFAULT CURRENT_TIMESTAMP has
\* a resolution of one second, and the clause does not tell apart the rows
\* written within the same second.
NewestFirst(rows) == {p \in rows \X rows : p[1].createdAt > p[2].createdAt}

\* a < b for two DATE values <<year, month, day>>.
DateBefore(a, b) ==
    \/ a[1] < b[1]
    \/ a[1] = b[1] /\ a[2] < b[2]
    \/ a[1] = b[1] /\ a[2] = b[2] /\ a[3] < b[3]

\* res.json(rows) of a list route, conn.release() in its finally block.
Listed(i, out) ==
    /\ reqs' = [reqs EXCEPT ![i] = Answer([reqs[i] EXCEPT !.result = out], 200, "rows", 1)]
    /\ pool' = PoolAfter(reqs[i], 1)

\* managers m LEFT JOIN teams t ON m.teamId = t.id
WithTeam(m) ==
    LET t == {x \in teams : x.id = m.teamId} IN
    m @@ [teamName |-> IF t = {} THEN Null ELSE (CHOOSE x \in t : TRUE).name,
          teamDepartment |-> IF t = {} THEN Null ELSE (CHOOSE x \in t : TRUE).department]

ListManagers(i) ==
    LET r == reqs[i]
        joined == {WithTeam(m) : m \in managers}
    IN
    /\ Runs(i, "GET /api/managers")
    /\ CASE r.pc = "start" ->
              /\ Goto(i, r, "conn")
              /\ ReadOnly
         [] r.pc = "q1" ->
              \* ... ORDER BY m.createdAt DESC
              /\ \E out \in OrderBy(joined, NewestFirst(joined)) : Listed(i, out)
              /\ ReadOnly

\* GET /api/managers/count.  COUNT(*) is a BIGINT: the driver, which is not
\* part of src/, hands it over as a Number or, from its version 3 on, as a
\* BigInt, which res.json cannot write (TypeError, caught by the handler).
CountManagers(i) ==
    LET r == reqs[i] IN
    /\ Runs(i, "GET /api/managers/count")
    /\ CASE r.pc = "start" ->
              /\ Goto(i, r, "conn")
              /\ ReadOnly
         [] r.pc = "q1" ->
              /\ \E bigint \in BOOLEAN :
                    IF bigint
                    THEN Caught(i, "TypeError", 500, "Failed to fetch manager count", 1)
                    ELSE /\ reqs' = [reqs EXCEPT ![i] =
                                       Answer([r EXCEPT !.result =
                                                  {[count |-> Cardinality(managers)]}],
                                              200, "count", 1)]
                         /\ pool' = PoolAfter(r, 1)
              /\ ReadOnly

\* GET /api/managers/email/:email
GetManagerByEmail(i) ==
    LET r == reqs[i]
        selected(m) == [f \in DOMAIN m \ {"createdAt", "teamDepartment"} |-> m[f]]
    IN
    /\ Runs(i, "GET /api/managers/email/:email")
    /\ CASE r.pc = "start" ->
              /\ Goto(i, r, "conn")
              /\ ReadOnly
         [] r.pc = "q1" ->
              \* SELECT m.id, ..., m.teamId, t.name as teamName (no createdAt, no
              \* teamDepartment) ... LEFT JOIN teams t ON m.teamId = t.id WHERE m.email = ?
              /\ Fetched(i, {selected(WithTeam(m)) :
                                m \in {x \in managers : DbEq(x.email, r.email)}},
                         "Manager not found")
              /\ ReadOnly

ListSports(i) ==
    LET r == reqs[i] IN
    /\ Runs(i, "GET /api/sports")
    /\ CASE r.pc = "start" ->
              /\ Goto(i, r, "conn")
              /\ ReadOnly
         [] r.pc = "q1" ->
              \* SELECT ... FROM sports ORDER BY name ASC
              /\ \E out \in OrderBy(sports, {p \in sports \X sports :
                                                TextBefore(p[1].name, p[2].name)}) :
                    Listed(i, out)
              /\ ReadOnly

ListStudents(i) ==
    LET r == reqs[i]
        \* SELECT id, name, ..., createdAt, updatedAt FROM students: no linkToken;
        \* if (managerId) query += ' WHERE managerId = ?'
        selected(s) == [f \in DOMAIN s \ {"linkToken"} |-> s[f]]
        rows == {selected(StudentJson(s, r.tz)) :
                    s \in {x \in students : r.managerId = 0 \/ x.managerId = r.managerId}}
    IN
    /\ Runs(i, "GET /api/students")
    /\ CASE r.pc = "start" ->
              /\ Goto(i, r, "conn")
              /\ ReadOnly
         [] r.pc = "q1" ->
              \* query += ' ORDER BY createdAt DESC'
              /\ \E out \in OrderBy(rows, NewestFirst(rows)) : Listed(i, out)
              /\ ReadOnly

ListCoaches(i) ==
    LET r == reqs[i]
        rows == IF r.managerId = 0 THEN coaches
                ELSE {s \in coaches : s.managerId = r.managerId}
    IN
    /\ Runs(i, "GET /api/coaches")
    /\ CASE r.pc = "start" ->
              /\ Goto(i, r, "conn")
              /\ ReadOnly
         [] r.pc = "q1" ->
              /\ \E out \in OrderBy(rows, NewestFirst(rows)) : Listed(i, out)
              /\ ReadOnly

ListTeams(i) ==
    LET r == reqs[i] IN
    /\ Runs(i, "GET /api/teams")
    /\ CASE r.pc = "start" ->
              /\ Goto(i, r, "conn")
              /\ ReadOnly
         [] r.pc = "q1" ->
              \* SELECT id, name, department, logo, color, ... FROM teams ORDER BY name ASC
              /\ IF "teams.color" \in extraSchema
                 THEN \E out \in OrderBy(teams, {p \in teams \X teams :
                                                  TextBefore(p[1].name, p[2].name)}) :
                         Listed(i, out)
                 ELSE \* not ER_NO_SUCH_TABLE, which alone is answered with []
                      Caught(i, "ER_BAD_FIELD_ERROR", 500, "Failed to fetch teams", 1)
              /\ ReadOnly

ListEventImages(i) ==
    LET r == reqs[i] IN
    /\ Runs(i, "GET /api/event-images")
    /\ CASE r.pc = "start" ->
              /\ Goto(i, r, "conn")
              /\ ReadOnly
         [] r.pc = "q1" ->
              \* ... ORDER BY displayOrder ASC, createdAt DESC
              /\ \E out \in OrderBy(eventImages,
                                    {p \in eventImages \X eventImages :
                                        \/ p[1].displayOrder < p[2].displayOrder
                                        \/ /\ p[1].displayOrder = p[2].displayOrder
                                           /\ p[1].createdAt > p[2].createdAt}) :
                    Listed(i, out)
              /\ ReadOnly

\* GET /api/notices
ListNotices(i) ==
    LET r == reqs[i]
        rows == {NoticeJson(x, r.tz) : x \in notices}
    IN
    /\ Runs(i, "GET /api/notices")
    /\ CASE r.pc = "start" ->
              /\ Goto(i, r, "conn")
              /\ ReadOnly
         [] r.pc = "q1" ->
              \* ... ORDER BY noticeDate DESC, createdAt DESC
              /\ \E out \in OrderBy(rows,
                                    {p \in rows \X rows :
                                        \/ DateBefore(p[2].noticeDate, p[1].noticeDate)
                                        \/ /\ p[1].noticeDate = p[2].noticeDate
                                           /\ p[1].createdAt > p[2].createdAt}) :
                    Listed(i, out)
              /\ ReadOnly

\* GET /api/student-selections?managerId=
ListSelections(i) ==
    LET r == reqs[i]
        \* ... FROM student_selections ss JOIN students s ON ss.studentId = s.id
        \*     WHERE ss.managerId = ?
        rows == {x @@ [studentName |-> s.name, prn |-> s.prn, contact |-> s.contact] :
                    <<x, s>> \in {p \in selections \X students :
                                     /\ p[1].studentId = p[2].id
                                     /\ p[1].managerId = r.managerId}}
    IN
    /\ Runs(i, "GET /api/student-selections")
    /\ CASE r.pc = "start" ->
              /\ IF r.managerId = 0
                 THEN Reply(i, 400, "Manager ID is required", 0)
                 ELSE Goto(i, r, "conn")
              /\ ReadOnly
         [] r.pc = "q1" ->
              \* ... ORDER BY ss.updatedAt DESC
              /\ \E out \in OrderBy(rows, {p \in rows \X rows :
                                              p[1].updatedAt > p[2].updatedAt}) :
                    Listed(i, out)
              /\ ReadOnly

\* GET /api/students-with-selections?managerId=
ListStudentsWithSelections(i) ==
    LET r == reqs[i]
        \* LEFT JOIN student_selections ss ON s.id = ss.studentId AND ss.managerId = ?
        of(s) == {x \in selections : x.studentId = s.id /\ x.managerId = r.managerId}
        \* s.*: every column the students table has, linkToken among them only
        \* where the table has that column
        star(s) == IF "students.linkToken" \in extraSchema THEN StudentJson(s, r.tz)
                   ELSE [f \in DOMAIN s \ {"linkToken"} |-> StudentJson(s, r.tz)[f]]
        \* SELECT s.*, COALESCE(ss.isSelected, FALSE) as isSelected, ss.id as selectionId
        rows == {star(s) @@ [isSelected |-> FALSE, selectionId |-> 0] :
                    s \in {y \in students : y.managerId = r.managerId /\ of(y) = {}}}
                \cup {star(p[1])
                         @@ [isSelected |-> p[2].isSelected, selectionId |-> p[2].id] :
                         p \in {q \in students \X selections :
                                   /\ q[1].managerId = r.managerId
                                   /\ q[2] \in of(q[1])}}
    IN
    /\ Runs(i, "GET /api/students-with-selections")
    /\ CASE r.pc = "start" ->
              /\ IF r.managerId = 0
                 THEN Reply(i, 400, "Manager ID is required", 0)
                 ELSE Goto(i, r, "conn")
              /\ ReadOnly
         [] r.pc = "q1" ->
              \* ... WHERE s.managerId = ? ORDER BY s.name ASC
              /\ \E out \in OrderBy(rows, {p \in rows \X rows :
                                              TextBefore(p[1].name, p[2].name)}) :
                    Listed(i, out)
              /\ ReadOnly

\* The error.code of the SELECT of GET /api/student-links, "ok" when it runs.
LinkListError ==
    IF "student_links" \notin extraSchema THEN "ER_NO_SUCH_TABLE"
    ELSE IF "students.linkToken" \notin extraSchema THEN "ER_BAD_FIELD_ERROR"
    ELSE "ok"

\* GET /api/student-links?managerId=.  COUNT(s.id) is a BIGINT, which the
\* driver hands over as a Number or as a BigInt (see CountManagers): with a
\* BigInt in a row, res.json throws after conn.release() and the catch block
\* releases the connection again.
ListLinks(i) ==
    LET r == reqs[i]
        \* ... LEFT JOIN students s ON s.linkToken = sl.token
        \*     WHERE sl.managerId = ? GROUP BY sl.id
        rows == {l @@ [studentCount |->
                          Cardinality({s \in students : DbEq(s.linkToken, l.token)})] :
                    l \in {x \in links : x.managerId = r.managerId}}
    IN
    /\ Runs(i, "GET /api/student-links")
    /\ CASE r.pc = "start" ->
              /\ IF r.managerId = 0
                 THEN Reply(i, 400, "Manager ID is required", 0)
                 ELSE Goto(i, r, "conn")
              /\ ReadOnly
         [] r.pc = "q1" ->
              /\ IF LinkListError # "ok"
                 THEN Caught(i, LinkListError, 500, "Failed to fetch student links", 1)
                 ELSE \E bigint \in BOOLEAN :
                         IF bigint /\ rows # {}
                         THEN Caught(i, "TypeError", 500, "Failed to fetch student links", 2)
                         ELSE \* ... ORDER BY sl.createdAt DESC
                              \E out \in OrderBy(rows, NewestFirst(rows)) : Listed(i, out)
              /\ ReadOnly

\* GET /api/student-links/:linkId/students
ListLinkStudents(i) ==
    LET r == reqs[i]
        \* SELECT token FROM student_links WHERE id = ?
        found == {l \in links : l.id = r.id}
        \* SELECT id, name, ..., managerId, createdAt FROM students WHERE linkToken = ?
        selected(s) == [f \in DOMAIN s \ {"linkToken"} |-> s[f]]
        rows == {selected(StudentJson(s, r.tz)) :
                    s \in {x \in students : DbEq(x.linkToken, r.token)}}
    IN
    /\ Runs(i, "GET /api/student-links/:linkId/students")
    /\ CASE r.pc = "start" ->
              /\ Goto(i, r, "conn")
              /\ ReadOnly
         [] r.pc = "q1" ->
              /\ IF "student_links" \notin extraSchema
                 THEN Caught(i, "ER_NO_SUCH_TABLE", 500, "Failed to fetch students", 1)
                 ELSE IF found = {}
                      THEN Reply(i, 404, "Link not found", 1)
                      ELSE Goto(i, [r EXCEPT !.token = (CHOOSE l \in found : TRUE).token], "q2")
              /\ ReadOnly
         [] r.pc = "q2" ->
              /\ IF "students.linkToken" \notin extraSchema
                 THEN Caught(i, "ER_BAD_FIELD_ERROR", 500, "Failed to fetch students", 1)
                 ELSE \* ... ORDER BY createdAt DESC
                      \E out \in OrderBy(rows, NewestFirst(rows)) : Listed(i, out)
              /\ ReadOnly

\* Rows written a second after the first ones.
Team2 == [Team1 EXCEPT !.id = 2, !.name = <<"b">>]
Team3 == [Team1 EXCEPT !.id = 3]
Sport3 == [id |-> 3, name |-> <<"a", "z">>, description |-> Null]
Student2 == [Student1 EXCEPT !.id = 2, !.prn = <<"p">>, !.managerId = 2]
Student3 == [Student1 EXCEPT !.id = 3, !.name = <<"U+00C9">>, !.prn = <<"r">>,
                             !.linkToken = <<"t">>, !.createdAt = 2]
Coach2 == [Coach1 EXCEPT !.id = 2, !.managerId = 2]
Coach3 == [Coach1 EXCEPT !.id = 3, !.createdAt = 2]
EventImage2 == [EventImage1 EXCEPT !.id = 2, !.imageUrl = 2, !.displayOrder = 1]
EventImage3 == [EventImage1 EXCEPT !.id = 3, !.imageUrl = 3, !.displayOrder = 1,
                                   !.createdAt = 2]
Notice2 == [Notice1 EXCEPT !.id = 2, !.documentUrl = 0, !.noticeDate = <<2026, 2, 1>>]
Notice3 == [Notice1 EXCEPT !.id = 3, !.documentUrl = 0, !.createdAt = 2]
Selection2 == [Selection1 EXCEPT !.id = 2, !.studentId = 2, !.isSelected = FALSE,
                                 !.updatedAt = 2]

\* The students table with the column linkToken, or as initializeDatabase
\* creates it, without: no student row then names a link.
InitList ==
    /\ extraSchema \in {ExtraSchema, ExtraSchema \ {"students.linkToken"}}
    /\ managers = {[Manager1 EXCEPT !.teamId = 2], Manager2}
    /\ teams = {Team1, Team2, Team3}
    /\ sports = {Sport1, Sport2, Sport3}
    /\ students = {Student1, Student2,
                   IF "students.linkToken" \in extraSchema THEN Student3
                   ELSE [Student3 EXCEPT !.linkToken = Null]}
    /\ links = {Link1, Link2}
    /\ coaches = {Coach1, Coach2, Coach3}
    /\ selections = {Selection1, Selection2}
    /\ eventImages = {EventImage1, EventImage2, EventImage3}
    /\ notices = {Notice1, Notice2, Notice3}
    /\ now = 2
    /\ teamImages = <<>>
    /\ teamImagesFile = FALSE
    /\ files = {1, 2, 3}
    /\ nextFile = 4
    /\ nextId = [tb \in Tables |-> IF tb = "managers" THEN 3 ELSE 4]
    /\ pool = 0
    /\ reqs = <<>>

ListOps == {"GET /api/managers", "GET /api/sports", "GET /api/students",
            "GET /api/coaches", "GET /api/teams", "GET /api/event-images"}

ListRequests ==
    {[BlankReq EXCEPT !.op = op] : op \in ListOps}
    \cup {[BlankReq EXCEPT !.op = op, !.managerId = m] :
             op \in {"GET /api/students", "GET /api/coaches"}, m \in {1, MaxId + 1}}
    \cup {[BlankReq EXCEPT !.op = op, !.tz = "east"] :
             op \in {"GET /api/students", "GET /api/notices"}}
    \cup {[BlankReq EXCEPT !.op = "GET /api/notices"]}
    \cup {[BlankReq EXCEPT !.op = op, !.managerId = m] :
             op \in {"GET /api/student-selections", "GET /api/students-with-selections",
                     "GET /api/student-links"},
             m \in {0, 1, 2}}
    \cup {[BlankReq EXCEPT !.op = "GET /api/student-links/:linkId/students", !.id = id] :
             id \in {1, MaxId + 1}}
    \cup {[BlankReq EXCEPT !.op = "GET /api/managers/count"]}
    \cup {[BlankReq EXCEPT !.op = "GET /api/managers/email/:email", !.email = e] :
             e \in {<<"A">> \o Tail(EmailA), EmailY}}
    \cup {ReqPostSports(<<"a">>)}
    \cup {ReqPostStudents(<<"w">>, 1)}
    \cup {ReqPostEventImages(o, Png) : o \in {Null, <<"1">>}}

ArriveList == \E r \in ListRequests : ArriveAlone(r)
StepListManagers == \E i \in DOMAIN reqs : ListManagers(i)
StepCountManagers == \E i \in DOMAIN reqs : CountManagers(i)
StepGetManagerByEmail == \E i \in DOMAIN reqs : GetManagerByEmail(i)
StepListSports == \E i \in DOMAIN reqs : ListSports(i)
StepListStudents == \E i \in DOMAIN reqs : ListStudents(i)
StepListCoaches == \E i \in DOMAIN reqs : ListCoaches(i)
StepListTeams == \E i \in DOMAIN reqs : ListTeams(i)
StepListEventImages == \E i \in DOMAIN reqs : ListEventImages(i)
StepListNotices == \E i \in DOMAIN reqs : ListNotices(i)
StepListSelections == \E i \in DOMAIN reqs : ListSelections(i)
StepListStudentsWithSelections == \E i \in DOMAIN reqs : ListStudentsWithSelections(i)
StepListLinks == \E i \in DOMAIN reqs : ListLinks(i)
StepListLinkStudents == \E i \in DOMAIN reqs : ListLinkStudents(i)

NextList ==
    \/ ArriveList
    \/ Connect
    \/ Tick
    \/ StepPostSports
    \/ StepPostStudents
    \/ StepPostEventImages
    \/ StepListManagers
    \/ StepCountManagers
    \/ StepGetManagerByEmail
    \/ StepListSports
    \/ StepListStudents
    \/ StepListCoaches
    \/ StepListTeams
    \/ StepListEventImages
    \/ StepListNotices
    \/ StepListSelections
    \/ StepListStudentsWithSelections
    \/ StepListLinks
    \/ StepListLinkStudents

SpecList == InitList /\ [][NextList]_vars

\* The ids of the rows a list request is to return.
Matching(r) ==
    CASE r.op = "GET /api/managers" -> {m.id : m \in managers}
      [] r.op = "GET /api/sports" -> {s.id : s \in sports}
      [] r.op = "GET /api/students" ->
            {s.id : s \in {x \in students : r.managerId = 0 \/ x.managerId = r.managerId}}
      [] r.op = "GET /api/coaches" ->
            {s.id : s \in {x \in coaches : r.managerId = 0 \/ x.managerId = r.managerId}}
      [] r.op = "GET /api/teams" -> {t.id : t \in teams}
      [] OTHER -> {x.id : x \in eventImages}

\* Row a may stand right before or anywhere before row b in the answer of route op.
InOrder(op, a, b) ==
    CASE op \in {"GET /api/sports", "GET /api/teams"} -> ~TextBefore(b.name, a.name)
      [] op = "GET /api/event-images" ->
            \/ a.displayOrder < b.displayOrder
            \/ a.displayOrder = b.displayOrder /\ a.createdAt >= b.createdAt
      [] OTHER -> a.createdAt >= b.createdAt

----------------------------------------------------------------------------
(* Pool connections: one per request, released once *)

InitRelease ==
    /\ managers = {Manager1}
    /\ teams = {Team1}
    /\ sports = {Sport1}
    /\ students = {}
    /\ links = {}
    /\ coaches = {}
    /\ selections = {}
    /\ eventImages = {EventImage1}
    /\ notices = {}
    /\ extraSchema = ExtraSchema
    /\ now = 1
    /\ teamImages = <<>>
    /\ teamImagesFile = FALSE
    /\ files = {1}
    /\ nextFile = 2
    /\ nextId = [tb \in Tables |-> 2]
    /\ pool = 0
    /\ reqs = <<>>

ReleaseRequests ==
    {[ReqPostTeams(n, f) EXCEPT !.fsError = e] :
        n \in {Null, Team1.name, <<"u">>}, f \in {NoFile, Png}, e \in BOOLEAN}
    \cup {[ReqPutTeams(id, Team1.name, Png) EXCEPT !.fsError = e] :
             id \in {1, MaxId + 1}, e \in BOOLEAN}
    \cup {[ReqPutEventImages(id, o, f) EXCEPT !.fsError = e] :
             id \in {1, MaxId + 1}, o \in {Null, <<"x">>}, f \in {NoFile, Png},
             e \in BOOLEAN}
    \cup {ReqPostManagers(m, Sport1.name, <<"7">>, 0) : m \in {EmailA, EmailX, Null}}
    \cup {ReqPostSports(n) : n \in {Null, Sport1.name, <<"z">>}}

ArriveRelease == \E r \in ReleaseRequests : Arrive(r)

NextRelease ==
    \/ ArriveRelease
    \/ Connect
    \/ StepPostTeams
    \/ StepPutTeams
    \/ StepPutEventImages
    \/ StepPostManagers
    \/ StepPostSports

SpecRelease == InitRelease /\ [][NextRelease]_vars

\* C22: a request holds at most one connection and calls release on it
\* exactly once, on every exit path; the connections checked out are those
\* of the requests in flight, so none is checked out when none is in flight.
C22_ReleasedExactlyOnce ==
    /\ \A i \in DOMAIN reqs :
          /\ reqs[i].rel <= 1
          /\ reqs[i].status # 0 =>
                /\ reqs[i].conn # "held"
                /\ (reqs[i].conn = "released") = (reqs[i].rel = 1)
    /\ pool = Cardinality({i \in DOMAIN reqs : reqs[i].conn = "held"})
    /\ Quiet => pool = 0

\* The same without the paths on which removing the uploaded file fails.
C22_ReleasedOnceWithoutFsError ==
    (\A i \in DOMAIN reqs : ~reqs[i].fsError) => C22_ReleasedExactlyOnce

----------------------------------------------------------------------------
(* Start-up and the pool: connection test, initializeDatabase, acquire timeout *)

\* The tasks config/database.js starts when it is loaded.  They are kept in
\* reqs with the requests, since they draw on the same pool; a finished task
\* has status 1.
StartupOps == {"connection test", "initializeDatabase"}

\* pool.getConnection().then(conn => { ...; conn.release() })
ReqConnectionTest == [BlankReq EXCEPT !.op = "connection test", !.pc = "conn"]

\* initializeDatabase(); result lists the tables whose CREATE TABLE ran, and
\* id is the number of the statement the server refuses (0: none).
ReqInitializeDatabase(fail) ==
    [BlankReq EXCEPT !.op = "initializeDatabase", !.pc = "conn", !.result = <<>>,
                     !.id = fail]

\* The callback of the connection test logs and releases the connection in
\* the step that is handed it: the pool has the connection back when the
\* step ends.
ConnectionTest(i) ==
    /\ InFlight(i)
    /\ reqs[i].op = "connection test"
    /\ reqs[i].pc = "conn"
    /\ pool < ConnectionLimit
    /\ reqs' = [reqs EXCEPT ![i] =
                  [@ EXCEPT !.pc = "done", !.status = 1,
                            !.body = "Connected to MariaDB database",
                            !.conn = "released", !.rel = 1]]
    /\ UNCHANGED <<dbvars, fsvars, nextId, pool>>

\* The CREATE TABLE IF NOT EXISTS statements of initializeDatabase, in the
\* order they are issued, with the tables their foreign keys reference and
\* the columns they declare.
SchemaUnordered ==
    <<[table |-> "managers", refs |-> {"teams"},
       columns |-> {"id", "name", "department", "sport", "contact", "email",
                    "studentCount", "teamId", "createdAt", "updatedAt"}],
      [table |-> "teams", refs |-> {},
       columns |-> {"id", "name", "department", "logo", "createdAt", "updatedAt"}],
      [table |-> "sports", refs |-> {},
       columns |-> {"id", "name", "description", "createdAt", "updatedAt"}],
      [table |-> "students", refs |-> {"managers"},
       columns |-> {"id", "name", "prn_uid", "contact", "email", "address",
                    "birthDate", "age", "managerId", "createdAt", "updatedAt"}],
      [table |-> "coaches", refs |-> {"managers"},
       columns |-> {"id", "name", "contact", "email", "specialization",
                    "managerId", "createdAt", "updatedAt"}],
      [table |-> "student_selections", refs |-> {"students", "managers"},
       columns |-> {"id", "studentId", "managerId", "isSelected", "createdAt",
                    "updatedAt"}],
      [table |-> "event_images", refs |-> {},
       columns |-> {"id", "title", "description", "imageUrl", "displayOrder",
                    "createdAt", "updatedAt"}],
      [table |-> "notices", refs |-> {},
       columns |-> {"id", "title", "description", "documentUrl",
                    "scheduleImageUrl", "noticeDate", "createdAt", "updatedAt"}]>>

Schema ==
    <<[table |-> "teams", refs |-> {},
       columns |-> {"id", "name", "department", "logo", "createdAt", "updatedAt"}],
      [table |-> "managers", refs |-> {"teams"},
       columns |-> {"id", "name", "department", "sport", "contact", "email",
                    "studentCount", "teamId", "createdAt", "updatedAt"}],
      [table |-> "sports", refs |-> {},
       columns |-> {"id", "name", "description", "createdAt", "updatedAt"}],
      [table |-> "students", refs |-> {"managers"},
       columns |-> {"id", "name", "prn_uid", "contact", "email", "address",
                    "birthDate", "age", "managerId", "createdAt", "updatedAt"}],
      [table |-> "coaches", refs |-> {"managers"},
       columns |-> {"id", "name", "contact", "email", "specialization",
                    "managerId", "createdAt", "updatedAt"}],
      [table |-> "student_selections", refs |-> {"students", "managers"},
       columns |-> {"id", "studentId", "managerId", "isSelected", "createdAt",
                    "updatedAt"}],
      [table |-> "event_images", refs |-> {},
       columns |-> {"id", "title", "description", "imageUrl", "displayOrder",
                    "createdAt", "updatedAt"}],
      [table |-> "notices", refs |-> {},
       columns |-> {"id", "title", "description", "documentUrl",
                    "scheduleImageUrl", "noticeDate", "createdAt", "updatedAt"}]>>

\* The tables a list of executed CREATE TABLE statements has created.
Created(log) == {log[k].table : k \in DOMAIN log}

\* initializeDatabase: one awaited statement per step.  A statement the
\* server refuses (a foreign key naming a table that does not exist, or the
\* injected failure) throws; the catch block logs the error and the finally
\* block releases the connection; the statements after it are not issued.
InitializeDatabase(i) ==
    LET r == reqs[i]
        k == Len(r.result) + 1
        refused == k = r.id \/ ~(Schema[k].refs \subseteq Created(r.result))
        r1 == [r EXCEPT !.result = Append(@, Schema[k])]
    IN
    /\ Runs(i, "initializeDatabase")
    /\ r.pc = "q1"
    /\ ReadOnly
    /\ IF refused
       THEN Reply(i, 1, "Error initializing database", 1)
       ELSE IF k = Len(Schema)
            THEN /\ reqs' = [reqs EXCEPT ![i] =
                               Answer(r1, 1, "Database tables initialized successfully", 1)]
                 /\ pool' = PoolAfter(r, 1)
            ELSE Goto(i, r1, "q1")

\* What the code that called pool.getConnection() answers or logs when the
\* call rejects: the error message of the catch block around the call, which
\* for a rejection is the one of its 500 answer.
CatchBody(op) ==
    CASE op = "connection test" -> "Database connection error"
      [] op = "initializeDatabase" -> "Error initializing database"
      [] op = "GET /api/managers" -> "Failed to fetch managers"
      [] op = "GET /api/managers/count" -> "Failed to fetch manager count"
      [] op = "GET /api/managers/email/:email" -> "Failed to fetch manager"
      [] op = "POST /api/managers" -> "Failed to create manager"
      [] op = "PUT /api/managers/:id" -> "Failed to update manager"
      [] op = "DELETE /api/managers/:id" -> "Failed to delete manager"
      [] op = "POST /api/managers/login" -> "Login failed"
      [] op = "GET /api/sports" -> "Failed to fetch sports"
      [] op = "GET /api/sports/:id" -> "Failed to fetch sport"
      \* the handler wraps the call in a try block of its own (558-568)
      [] op = "POST /api/sports" -> "Database connection failed"
      [] op = "PUT /api/sports/:id" -> "Failed to update sport"
      [] op = "DELETE /api/sports/:id" -> "Failed to delete sport"
      [] op = "GET /api/students" -> "Failed to fetch students"
      [] op = "POST /api/students" -> "Failed to create student"
      [] op = "PUT /api/students/:id" -> "Failed to update student"
      [] op = "DELETE /api/students/:id" -> "Failed to delete student"
      [] op = "GET /api/coaches" -> "Failed to fetch coaches"
      [] op = "POST /api/coaches" -> "Failed to create coach"
      [] op = "PUT /api/coaches/:id" -> "Failed to update coach"
      [] op = "DELETE /api/coaches/:id" -> "Failed to delete coach"
      [] op = "GET /api/student-selections" -> "Failed to fetch student selections"
      [] op = "GET /api/students-with-selections" ->
            "Failed to fetch students with selections"
      [] op = "POST /api/student-selections/toggle" ->
            "Failed to toggle student selection"
      [] op = "GET /api/teams" -> "Failed to fetch teams"
      [] op = "GET /api/teams/:id" -> "Failed to fetch team"
      [] op = "POST /api/teams" -> "Failed to create team"
      [] op = "PUT /api/teams/:id" -> "Failed to update team"
      [] op = "DELETE /api/teams/:id" -> "Failed to delete team"
      [] op = "GET /api/event-images" -> "Failed to fetch event images"
      [] op = "GET /api/event-images/:id" -> "Failed to fetch event image"
      [] op = "POST /api/event-images" -> "Failed to create event image"
      [] op = "PUT /api/event-images/:id" -> "Failed to update event image"
      [] op = "DELETE /api/event-images/:id" -> "Failed to delete event image"
      [] op = "GET /api/notices" -> "Failed to fetch notices"
      [] op = "GET /api/notices/:id" -> "Failed to fetch notice"
      [] op = "POST /api/notices" -> "Failed to create notice"
      [] op = "PUT /api/notices/:id" -> "Failed to update notice"
      [] op = "DELETE /api/notices/:id" -> "Failed to delete notice"
      [] op = "POST /api/student-links" -> "Failed to create student link"
      [] op = "GET /api/student-links" -> "Failed to fetch student links"
      [] op = "GET /api/student-links/token/:token" -> "Failed to fetch link"
      [] op = "POST /api/student-links/submit" -> "Failed to submit student form"
      [] op = "GET /api/student-links/:linkId/students" -> "Failed to fetch students"
      [] op = "PUT /api/student-links/:id" -> "Failed to update link"
      [] op = "DELETE /api/student-links/:id" -> "Failed to delete link"

\* The same over a pool without acquireTimeout: the caller keeps waiting.
AcquireNoTimeout(i) ==
    LET r == reqs[i] IN
    /\ InFlight(i)
    /\ r.pc = "conn"
    /\ pool > ConnectionLimit
    /\ reqs' = [reqs EXCEPT ![i] =
                  Answer([r EXCEPT !.err = "ER_GET_CONNECTION_TIMEOUT"],
                         IF r.op \in StartupOps THEN 1 ELSE 500, CatchBody(r.op), 0)]
    /\ files' = Cleaned(r)
    /\ UNCHANGED <<dbvars, teamImages, teamImagesFile, nextFile, nextId, pool>>

\* pool.getConnection() rejects when no connection came free within
\* acquireTimeout.  Every handler calls it inside its try block: the catch
\* block removes the files the request uploaded, where the route takes
\* uploads, and answers 500; conn is undefined and nothing is released.  The
\* start-up tasks log the error.
AcquireTimeout(i) ==
    LET r == reqs[i] IN
    /\ InFlight(i)
    /\ r.pc = "conn"
    /\ pool = ConnectionLimit
    /\ reqs' = [reqs EXCEPT ![i] =
                  Answer([r EXCEPT !.err = "ER_GET_CONNECTION_TIMEOUT"],
                         IF r.op \in StartupOps THEN 1 ELSE 500, CatchBody(r.op), 0)]
    /\ files' = Cleaned(r)
    /\ UNCHANGED <<dbvars, teamImages, teamImagesFile, nextFile, nextId, pool>>

\* The server right after config/database.js was loaded: both start-up tasks
\* have called pool.getConnection().
InitPool ==
    /\ \E fail \in {0, 4} :
          reqs = <<ReqConnectionTest, ReqInitializeDatabase(fail)>>
    /\ managers = {}
    /\ teams = {Team1}
    /\ sports = {Sport1}
    /\ students = {}
    /\ links = {}
    /\ coaches = {}
    /\ selections = {}
    /\ eventImages = {}
    /\ notices = {}
    /\ extraSchema = ExtraSchema
    /\ now = 1
    /\ teamImages = <<>>
    /\ teamImagesFile = FALSE
    /\ files = {}
    /\ nextFile = 1
    /\ nextId = [tb \in Tables |-> 2]
    /\ pool = 0

\* Requests received while the start-up tasks may still be running.
MaxClients == ConnectionLimit

PoolRequests == {[BlankReq EXCEPT !.op = "GET /api/sports"]}

ArrivePool ==
    \E r \in PoolRequests :
        /\ Len(reqs) < MaxClients + 2
        /\ reqs' = Append(reqs, r)
        /\ UNCHANGED <<dbvars, fsvars, nextId, pool>>

StepConnectionTest == \E i \in DOMAIN reqs : ConnectionTest(i)
StepInitializeDatabase == \E i \in DOMAIN reqs : InitializeDatabase(i)
Timeout == \E i \in DOMAIN reqs : AcquireTimeout(i)

NextPool ==
    \/ ArrivePool
    \/ Connect
    \/ Timeout
    \/ StepConnectionTest
    \/ StepInitializeDatabase
    \/ StepListSports

SpecPool == InitPool /\ [][NextPool]_vars

\* The server while five requests hold the five connections of the pool.
InitTimeout ==
    /\ reqs = [k \in 1..ConnectionLimit |->
                 [BlankReq EXCEPT !.op = "GET /api/sports", !.pc = "q1", !.conn = "held"]]
    /\ pool = ConnectionLimit
    /\ managers = {Manager1}
    /\ teams = {Team1}
    /\ sports = {Sport1}
    /\ students = {}
    /\ links = {}
    /\ coaches = {}
    /\ selections = {}
    /\ eventImages = {}
    /\ notices = {}
    /\ extraSchema = ExtraSchema
    /\ now = 1
    /\ teamImages = <<>>
    /\ teamImagesFile = FALSE
    /\ files = {}
    /\ nextFile = 1
    /\ nextId = [tb \in Tables |-> 2]

TimeoutRequests ==
    {[ReqPostTeams(<<"u">>, Png) EXCEPT !.fsError = e] : e \in BOOLEAN}
    \cup {ReqPostNotices(<<"e">>, Png, Png)}
    \cup {ReqPostManagers(EmailX, <<"q">>, <<"8">>, 0)}
    \cup {ReqLogin(EmailA, <<"7">>)}
    \cup {ReqDeleteTeams(1)}
    \cup {[BlankReq EXCEPT !.op = "GET /api/sports/:id", !.id = 1]}

ArriveTimeout ==
    \E r \in TimeoutRequests :
        /\ Len(reqs) < MaxClients + 2
        /\ reqs' = Append(reqs, r)
        /\ UNCHANGED <<dbvars, fsvars, nextId, pool>>

NextTimeout ==
    \/ ArriveTimeout
    \/ Connect
    \/ Timeout
    \/ StepListSports
    \/ StepPostTeams
    \/ StepPostNotices
    \/ StepPostManagers
    \/ StepLogin
    \/ StepDeleteTeams
    \/ StepGetSports

SpecTimeout == InitTimeout /\ [][NextTimeout]_vars

\* A request whose acquire timed out is answered 500 with the message of its
\* route, has released nothing, and the files it uploaded are removed unless
\* their removal failed.
TimedOutRequests ==
    \A i \in DOMAIN reqs :
        reqs[i].err = "ER_GET_CONNECTION_TIMEOUT" =>
            /\ reqs[i].status = 500
            /\ reqs[i].body = CatchBody(reqs[i].op)
            /\ reqs[i].conn = "none" /\ reqs[i].rel = 0
            /\ ~reqs[i].fsError => {reqs[i].stored, reqs[i].stored2} \cap files = {}

\* C23: at most ConnectionLimit connections are checked out, those of the
\* start-up tasks included; a request or task runs queries only while it
\* holds one of them; a request or task that ended without ever holding a
\* connection waited for one at a full pool until the acquire timed out.
C23_PoolBounded ==
    /\ pool <= ConnectionLimit
    /\ pool = Cardinality({i \in DOMAIN reqs : reqs[i].conn = "held"})
    /\ \A i \in DOMAIN reqs :
          /\ (reqs[i].status = 0 /\ reqs[i].pc \notin {"start", "conn"}) =>
                reqs[i].conn = "held"
          /\ (reqs[i].status # 0 /\ reqs[i].conn = "none") =>
                /\ reqs[i].status = IF reqs[i].op \in StartupOps THEN 1 ELSE 500
                /\ reqs[i].err = "ER_GET_CONNECTION_TIMEOUT"

\* initializeDatabase and four requests hold the five connections; the
\* connection test and a fifth request wait.
C23_Witness ==
    /\ pool = ConnectionLimit
    /\ reqs[2].conn = "held"
    /\ reqs[1].status = 0
    /\ \E i \in DOMAIN reqs :
          reqs[i].op \notin StartupOps /\ reqs[i].status = 0 /\ reqs[i].pc = "conn"

\* The pool's timer: a request waiting for a connection is either granted
\* one or, at a full pool, rejected when acquireTimeout has passed.
PoolFairness ==
    \A i \in 1..(MaxClients + 2) : WF_vars(Acquire(i) \/ AcquireTimeout(i))

\* Every query on a held connection returns, and the event loop runs the
\* continuation of every handler and start-up task.
QueriesReturn ==
    /\ WF_vars(StepListSports)
    /\ WF_vars(StepConnectionTest)
    /\ WF_vars(StepInitializeDatabase)

SpecPoolLive == SpecPool /\ PoolFairness

\* A request (not a start-up task) that has not been answered, or that waits
\* for a connection.
Unanswered == {i \in DOMAIN reqs : reqs[i].op \notin StartupOps /\ reqs[i].status = 0}
Waiting == {i \in Unanswered : reqs[i].pc = "conn"}

\* C24: a request waiting for a connection does not wait for ever (requests
\* only move forward, so that no request waits for ever when time and again
\* none is waiting): it is granted a connection or answered 500 when the
\* acquire times out; an answered request is never answered again; and, when
\* every query on a held connection returns, every request is eventually
\* answered.
C24_EveryRequestAnswered ==
    /\ []<>(Waiting = {})
    /\ [][\A i \in DOMAIN reqs :
            /\ reqs[i].status # 0 => reqs'[i] = reqs[i]
            /\ (i \in Waiting /\ reqs'[i].status # 0) => reqs'[i].status = 500]_vars
    /\ QueriesReturn => []<>(Unanswered = {})

C24_Witness ==
    \E i, j \in DOMAIN reqs :
        /\ reqs[i].status = 500
        /\ reqs[i].err = "ER_GET_CONNECTION_TIMEOUT"
        /\ reqs[j].status = 200

\* The start-up task initializeDatabase, once it has been started.
Bootstrap == reqs[2]

\* C28: every CREATE TABLE statement is issued after those of the tables its
\* foreign keys reference, so that none is refused for a missing table; a
\* statement the server refuses ends the task: the error is logged, the
\* connection released, the remaining statements are skipped, and the server
\* goes on serving requests.  A task that was given no connection logs the
\* error and issues no statement.
C28_BootstrapInDependencyOrder ==
    LET log == Bootstrap.result IN
    /\ \A k \in DOMAIN log :
          log[k].refs \subseteq {log[j].table : j \in 1..(k - 1)}
    /\ \A k \in DOMAIN log : log[k] = Schema[k]
    /\ Bootstrap.status # 0 =>
          IF Bootstrap.err = "ER_GET_CONNECTION_TIMEOUT"
          THEN /\ Bootstrap.conn = "none"
               /\ Bootstrap.body = "Error initializing database"
               /\ log = <<>>
          ELSE /\ Bootstrap.conn = "released"
               /\ IF Bootstrap.id \in DOMAIN Schema
                  THEN /\ Bootstrap.body = "Error initializing database"
                       /\ Len(log) = Bootstrap.id - 1
                  ELSE /\ Bootstrap.body = "Database tables initialized successfully"
                       /\ Len(log) = Len(Schema)

\* initializeDatabase has failed at its fourth statement, and a request that
\* arrived afterwards was served.
C28_Witness ==
    /\ Bootstrap.body = "Error initializing database"
    /\ Created(Bootstrap.result) = {"teams", "managers", "sports"}
    /\ \E i \in DOMAIN reqs : reqs[i].status = 200

\* Tables and columns named by the SQL of the request handlers.
HandlerColumns ==
    {<<"managers", c>> : c \in {"id", "name", "department", "sport", "contact",
                                "email", "studentCount", "teamId", "createdAt",
                                "updatedAt"}}
    \cup {<<"teams", c>> : c \in {"id", "name", "department", "logo", "color",
                                  "createdAt", "updatedAt"}}
    \cup {<<"sports", c>> : c \in {"id", "name", "description", "createdAt",
                                   "updatedAt"}}
    \cup {<<"students", c>> : c \in {"id", "name", "prn_uid", "contact", "email",
                                     "address", "birthDate", "age", "managerId",
                                     "linkToken", "createdAt", "updatedAt"}}
    \cup {<<"coaches", c>> : c \in {"id", "name", "contact", "email",
                                    "specialization", "managerId", "createdAt",
                                    "updatedAt"}}
    \cup {<<"student_selections", c>> : c \in {"id", "studentId", "managerId",
                                               "isSelected", "createdAt",
                                               "updatedAt"}}
    \cup {<<"event_images", c>> : c \in {"id", "title", "description", "imageUrl",
                                         "displayOrder", "createdAt", "updatedAt"}}
    \cup {<<"notices", c>> : c \in {"id", "title", "description", "documentUrl",
                                    "scheduleImageUrl", "noticeDate", "createdAt",
                                    "updatedAt"}}
    \cup {<<"student_links", c>> : c \in {"id", "managerId", "token", "isActive",
                                          "createdAt", "updatedAt"}}

\* Table.column pairs that exist after the statements of log, run on an
\* empty database.
Columns(log) ==
    UNION {{<<log[k].table, c>> : c \in log[k].columns} : k \in DOMAIN log}

\* C29: when initializeDatabase has run all its statements without error on
\* an empty database, every table and column the handlers name exists.
C29_BootstrapCreatesAllUsed ==
    Bootstrap.body = "Database tables initialized successfully" =>
        HandlerColumns \subseteq Columns(Bootstrap.result)

\* The same for all but student_links, students.linkToken and teams.color.
C29_AllButLinksAndColor ==
    Bootstrap.body = "Database tables initialized successfully" =>
        {p \in HandlerColumns :
            /\ p[1] # "student_links"
            /\ p # <<"students", "linkToken">>
            /\ p # <<"teams", "color">>} \subseteq Columns(Bootstrap.result)

----------------------------------------------------------------------------
(* Deactivating a link while submissions are in flight *)

\* Link l is inactive and a PUT that deactivated it has been answered.
Deactivated(l) ==
    /\ l.isActive = "FALSE"
    /\ \E j \in DOMAIN reqs :
          /\ reqs[j].op = "PUT /api/student-links/:id"
          /\ reqs[j].id = l.id
          /\ reqs[j].flag = "false"
          /\ reqs[j].status = 200

\* C25: once the deactivation of a link has been answered, and until the link
\* is active again, no student row carrying the link's token is inserted.
C25_NoInsertAfterDeactivation ==
    [][\A l \in links :
          Deactivated(l) => \A s \in students' \ students : s.linkToken # l.token]_vars

\* The same for submissions that arrive after the deactivation was answered:
\* a student row inserted for a deactivated link belongs to a submission that
\* had read the link before.
C25_OnlyInFlightSubmissionsInsert ==
    [][\A l \in links :
          Deactivated(l) =>
             \A s \in students' \ students :
                s.linkToken = l.token =>
                   \E i \in DOMAIN reqs :
                      /\ reqs[i].op = "POST /api/student-links/submit"
                      /\ reqs[i].pc = "q3"
                      /\ reqs[i].lmanager = l.managerId]_vars


\* C26: when every request has been answered, every logo, imageUrl,
\* documentUrl and scheduleImageUrl stored in a row names a file present in
\* the uploads directory.
C26_ReferencedFilesPresent ==
    Quiet =>
        /\ \A t \in teams : t.logo # 0 => t.logo \in files
        /\ \A e \in eventImages : e.imageUrl # 0 => e.imageUrl \in files
        /\ \A x \in notices :
              /\ x.documentUrl # 0 => x.documentUrl \in files
              /\ x.scheduleImageUrl # 0 => x.scheduleImageUrl \in files

\* The same while no update of an event image or a notice was answered 500.
C26_PresentUnlessUpdateFailed ==
    (\A i \in DOMAIN reqs :
        reqs[i].op \in {"PUT /api/event-images/:id", "PUT /api/notices/:id"} =>
           reqs[i].status # 500) => C26_ReferencedFilesPresent

----------------------------------------------------------------------------
(* Validation comes before the first query *)

\* PUT /api/sports/:id
PutSports(i) ==
    LET r == reqs[i]
        clash == \E s \in sports : s.id # r.id /\ DbEq(s.name, Trim(r.name))
    IN
    /\ Runs(i, "PUT /api/sports/:id")
    /\ CASE r.pc = "start" ->
              /\ IF Falsy(r.name) \/ Trim(r.name) = <<>>
                 THEN Reply(i, 400, "Sport name is required", 0)
                 ELSE Goto(i, r, "conn")
              /\ ReadOnly
         [] r.pc = "q1" ->
              \* SELECT id FROM sports WHERE id = ?
              /\ IF ~\E s \in sports : s.id = r.id
                 THEN Reply(i, 404, "Sport not found", 1)
                 ELSE Goto(i, r, "q2")
              /\ ReadOnly
         [] r.pc = "q2" ->
              \* SELECT id FROM sports WHERE name = ? AND id != ?
              /\ IF clash
                 THEN Reply(i, 400, "Sport name already exists", 1)
                 ELSE Goto(i, r, "q3")
              /\ ReadOnly
         [] r.pc = "q3" ->
              \* UPDATE sports SET name = ?, description = ? WHERE id = ?: the
              \* unique index is checked only when the UPDATE matches a row
              /\ IF clash /\ \E s \in sports : s.id = r.id
                 THEN /\ sports' = sports
                      /\ Caught(i, "ER_DUP_ENTRY", 500, "Failed to update sport", 1)
                 ELSE /\ sports' = {IF s.id = r.id
                                    THEN [s EXCEPT !.name = Trim(r.name),
                                                   !.description = TrimOrNull(r.description)]
                                    ELSE s : s \in sports}
                      /\ Goto(i, r, "q4")
              /\ UNCHANGED <<now, extraSchema, managers, teams, students, coaches, selections, links,
                             eventImages, notices, fsvars, nextId>>
         [] r.pc = "q4" ->
              /\ Reply(i, 200, "sport", 1)
              /\ ReadOnly

\* PUT /api/coaches/:id
PutCoaches(i) ==
    LET r == reqs[i] IN
    /\ Runs(i, "PUT /api/coaches/:id")
    /\ CASE r.pc = "start" ->
              \* if (!name || !contact): a text of spaces only passes
              /\ IF Falsy(r.name) \/ Falsy(r.contact)
                 THEN Reply(i, 400, "Name and Contact are required", 0)
                 ELSE Goto(i, r, "conn")
              /\ ReadOnly
         [] r.pc = "q1" ->
              \* SELECT id FROM coaches WHERE id = ?
              /\ IF ~\E x \in coaches : x.id = r.id
                 THEN Reply(i, 404, "Coach not found", 1)
                 ELSE Goto(i, r, "q2")
              /\ ReadOnly
         [] r.pc = "q2" ->
              \* UPDATE coaches SET name = ?, contact = ?, email = ?, specialization = ?
              /\ coaches' = {IF x.id = r.id
                             THEN [x EXCEPT !.name = Trim(r.name),
                                            !.contact = Trim(r.contact)]
                             ELSE x : x \in coaches}
              /\ Goto(i, r, "q3")
              /\ UNCHANGED <<now, extraSchema, managers, teams, sports, students, selections, links,
                             eventImages, notices, fsvars, nextId>>
         [] r.pc = "q3" ->
              /\ Reply(i, 200, "coach", 1)
              /\ ReadOnly

InitValidation ==
    /\ managers = {Manager1}
    /\ teams = {Team1}
    /\ sports = {Sport1}
    /\ students = {Student1}
    /\ links = {Link1}
    /\ coaches = {Coach1}
    /\ selections = {}
    /\ eventImages = {}
    /\ notices = {}
    /\ extraSchema = ExtraSchema
    /\ now = 1
    /\ teamImages = <<>>
    /\ teamImagesFile = FALSE
    /\ files = {}
    /\ nextFile = 1
    /\ nextId = [tb \in Tables |-> 2]
    /\ pool = 0
    /\ reqs = <<>>

\* One acceptable request per validated route, and the same request with one
\* required field missing or malformed.
ValidationRequests ==
    {ReqPostManagers(e, <<"q">>, c, 0) :
        e \in {EmailX, Null, <<"x", "@", "b">>}, c \in {<<"7">>, Null}}
    \cup {[ReqPostManagers(EmailX, <<"q">>, <<"7">>, 0) EXCEPT !.studentCount = n] :
             n \in {<<"0">>, <<"0", "x", "1">>}}
    \cup {ReqPostManagers(<<"x", "\t", "@", "b", ".", "c">>, <<"q">>, <<"7">>, 0)}
    \cup {ReqPutManagers(1, e, s) : e \in {EmailA, <<"x", "@", "b">>}, s \in {<<"q">>, Null}}
    \cup {ReqPostSports(n) : n \in {<<"z">>, <<"\t">>, Null}}
    \cup {[ReqById("PUT /api/sports/:id", 1) EXCEPT !.name = n] :
             n \in {<<"z">>, <<" ">>, Null}}
    \cup {ReqPostStudents(p, m) : p \in {<<"p">>, Null}, m \in {0, 1}}
    \cup {ReqPutStudents(1, p) : p \in {<<"p">>, Null}}
    \cup {[ReqPostCoaches(m) EXCEPT !.name = n] :
             m \in {0, 1}, n \in {<<"n">>, Null, <<" ">>}}
    \cup {[ReqById("PUT /api/coaches/:id", 1) EXCEPT !.name = n, !.contact = c] :
             n \in {<<"m">>, Null}, c \in {<<"8">>, Null}}
    \cup {ReqPostTeams(n, f) : n \in {<<"u">>, Null, <<" ">>}, f \in {NoFile, Png}}
    \cup {[ReqPutTeams(1, <<"u">>, f) EXCEPT !.department = d] :
             f \in {NoFile, Png}, d \in {<<"d">>, Null}}
    \cup {ReqToggle(s, m, f) : s \in {0, 1}, m \in {0, 1}, f \in {"true", "none"}}
    \cup {[ReqPostNotices(t, Pdf, NoFile) EXCEPT !.noticeDate = d] :
             t \in {<<"e">>, Null}, d \in {<<2026, 1, 15>>, Null}}
    \cup {[ReqSubmitLink(t, p) EXCEPT !.birthDate = b] :
             t \in {<<"t">>, Null}, p \in {<<"p">>, <<" ">>},
             b \in {<<2000, 1, 1>>, Null}}

ArriveValidation == \E r \in ValidationRequests : ArriveAlone(r)
StepPutSports == \E i \in DOMAIN reqs : PutSports(i)
StepPutCoaches == \E i \in DOMAIN reqs : PutCoaches(i)

NextValidation ==
    \/ ArriveValidation
    \/ Connect
    \/ StepPostManagers
    \/ StepPutManagers
    \/ StepPostSports
    \/ StepPutSports
    \/ StepPostStudents
    \/ StepPutStudents
    \/ StepPostCoaches
    \/ StepPutCoaches
    \/ StepPostTeams
    \/ StepPutTeams
    \/ StepToggle
    \/ StepPostNotices
    \/ StepSubmitLink

SpecValidation == InitValidation /\ [][NextValidation]_vars

\* The messages with which the handlers reject a missing or malformed field.
ValidationBodies ==
    {"All fields are required", "Invalid email format",
     "Student count must be a positive number", "Sport name is required",
     "Name, PRN/UID, Contact, Birth Date, and Manager ID are required",
     "Name, PRN/UID, Contact, and Birth Date are required",
     "Name, Contact, and Manager ID are required", "Name and Contact are required",
     "Team name is required", "Team department is required",
     "Student ID, Manager ID, and isSelected (boolean) are required",
     "Notice title is required", "Notice description is required",
     "Notice date is required", "Token is required", "Name is required",
     "PRN/UID is required", "Contact is required", "Birth date is required"}

\* A required field of the request's route is absent.
MissingRequired(r) ==
    CASE r.op \in {"POST /api/managers", "PUT /api/managers/:id"} ->
            \E f \in {r.name, r.department, r.sport, r.contact, r.email,
                      r.studentCount} : Falsy(f)
      [] r.op \in {"POST /api/sports", "PUT /api/sports/:id"} -> Falsy(r.name)
      [] r.op = "POST /api/students" ->
            (\E f \in {r.name, r.prn, r.contact, r.birthDate} : Falsy(f))
            \/ r.managerId = 0
      [] r.op = "PUT /api/students/:id" ->
            \E f \in {r.name, r.prn, r.contact, r.birthDate} : Falsy(f)
      [] r.op = "POST /api/coaches" ->
            Falsy(r.name) \/ Falsy(r.contact) \/ r.managerId = 0
      [] r.op = "PUT /api/coaches/:id" -> Falsy(r.name) \/ Falsy(r.contact)
      [] r.op \in {"POST /api/teams", "PUT /api/teams/:id"} ->
            Falsy(r.name) \/ Falsy(r.department)
      [] r.op = "POST /api/student-selections/toggle" ->
            r.studentId = 0 \/ r.managerId = 0 \/ r.flag = "none"
      [] r.op = "POST /api/notices" ->
            \E f \in {r.title, r.description, r.noticeDate} : Falsy(f)
      [] r.op = "POST /api/student-links/submit" ->
            \E f \in {r.token, r.name, r.prn, r.contact, r.birthDate} : Falsy(f)
      [] OTHER -> FALSE

\* A text that is present and empty once trimmed.
Blank(f) == ~Falsy(f) /\ Trim(f) = <<>>

\* A required field of the request's route is present and not well-formed:
\* a text that is blank once trimmed, an e-mail address that does not match
\* the pattern, a student count that does not parse to a positive number.
Malformed(r) ==
    CASE r.op \in {"POST /api/managers", "PUT /api/managers/:id"} ->
            \/ \E f \in {r.name, r.department, r.sport, r.contact} : Blank(f)
            \/ ~Falsy(r.email) /\ ~EmailOk(r.email)
            \/ /\ ~Falsy(r.studentCount)
               /\ (ParseInt(r.studentCount) = <<>> \/ ParseInt(r.studentCount)[1] <= 0)
      [] r.op \in {"POST /api/sports", "PUT /api/sports/:id"} -> Blank(r.name)
      [] r.op \in {"POST /api/students", "PUT /api/students/:id",
                   "POST /api/student-links/submit"} ->
            \E f \in {r.name, r.prn, r.contact} : Blank(f)
      [] r.op \in {"POST /api/coaches", "PUT /api/coaches/:id"} ->
            Blank(r.name) \/ Blank(r.contact)
      [] r.op \in {"POST /api/teams", "PUT /api/teams/:id"} ->
            Blank(r.name) \/ Blank(r.department)
      [] r.op = "POST /api/notices" -> Blank(r.title) \/ Blank(r.description)
      [] OTHER -> FALSE

\* The step that rejects a request for a validation error is the first of
\* its handler: the request holds and has held no connection, and no row and
\* no pool counter changes.
RejectedBeforeQueries ==
    \A i \in DOMAIN reqs :
        (/\ reqs[i].status = 0
         /\ reqs'[i].status = 400
         /\ reqs'[i].body \in ValidationBodies) =>
            /\ reqs[i].pc = "start"
            /\ reqs'[i].conn = "none"
            /\ reqs'[i].rel = 0
            /\ pool' = pool
            /\ UNCHANGED <<dbvars, nextId>>

\* C27: a request with a required field missing or malformed is answered 400
\* with a validation message, and the step that rejects a request for a
\* validation error comes before any query: no connection is acquired and no
\* row changes.
C27_ValidationBeforeQueries ==
    /\ [](\A i \in DOMAIN reqs :
             (reqs[i].status # 0 /\ (MissingRequired(reqs[i]) \/ Malformed(reqs[i]))) =>
                reqs[i].status = 400 /\ reqs[i].body \in ValidationBodies)
    /\ [][RejectedBeforeQueries]_vars

\* The same for the requests with a required field absent, which every
\* handler checks.
C27_MissingFieldsRejectedFirst ==
    /\ [](\A i \in DOMAIN reqs :
             (reqs[i].status # 0 /\ MissingRequired(reqs[i])) =>
                reqs[i].status = 400 /\ reqs[i].body \in ValidationBodies)
    /\ [][RejectedBeforeQueries]_vars

C27_Witness ==
    \E i, j \in DOMAIN reqs :
        /\ reqs[i].op = "POST /api/coaches"
        /\ reqs[i].status = 201
        /\ reqs[j].op = "PUT /api/coaches/:id"
        /\ reqs[j].status = 400
        /\ reqs[j].body \in ValidationBodies

----------------------------------------------------------------------------
(* Issuing links: the token loop *)

InitIssue == Started(ExtraSchema, {Manager1}, {}, {}, {}, {Link1})

IssueRequests ==
    {ReqPostLinks(m) : m \in {1, MaxId + 1}}
    \cup {ReqById("DELETE /api/student-links/:id", id) : id \in 1..MaxId}

ArriveIssue == \E r \in IssueRequests : Arrive(r)

NextIssue ==
    \/ ArriveIssue
    \/ Connect
    \/ StepPostLinks
    \/ StepDeleteLinks

\* Request i draws a token that matches no row and leaves the loop.
FreshToken(i) ==
    /\ PostLinks(i)
    /\ reqs[i].pc = "q2"
    /\ reqs'[i].pc = "q3"

\* The event loop runs every continuation, and a generator that can yield a
\* token not yet stored does so at some turn of the loop.
SpecIssue ==
    /\ InitIssue
    /\ [][NextIssue]_vars
    /\ WF_vars(Connect)
    /\ WF_vars(StepPostLinks)
    /\ WF_vars(StepDeleteLinks)
    /\ \A i \in 1..MaxReqs : SF_vars(FreshToken(i))

\* Every token the generator may yield is stored in a row.
TokensUsedUp == \A t \in Tokens : \E l \in links : DbEq(l.token, t)

\* C30: no two rows of student_links share a token, also with issuance
\* requests interleaved; a request leaves the token loop for its INSERT only
\* with a token that matches no row; and a request in the loop leaves it
\* unless every token the generator yields is stored.
C30_TokensUnique ==
    /\ [](\A a, b \in links : DbEq(a.token, b.token) => a = b)
    /\ [][\A i \in DOMAIN reqs :
            (/\ reqs[i].op = "POST /api/student-links"
             /\ reqs[i].pc = "q2"
             /\ reqs'[i].pc # "q2") =>
                /\ reqs'[i].pc = "q3"
                /\ ~\E l \in links : DbEq(l.token, reqs'[i].token)]_vars
    /\ \A i \in 1..MaxReqs :
          (i \in DOMAIN reqs /\ reqs[i].op = "POST /api/student-links"
                             /\ reqs[i].pc = "q2")
             ~> (TokensUsedUp \/ (i \in DOMAIN reqs /\ reqs[i].pc # "q2"))

\* Two issuance requests drew the same token; one stored it and the other
\* was refused by the unique index.
C30_Witness ==
    \E i, j \in DOMAIN reqs :
        /\ reqs[i].op = "POST /api/student-links"
        /\ reqs[j].op = "POST /api/student-links"
        /\ reqs[i].status = 201
        /\ reqs[j].err = "ER_DUP_ENTRY"
        /\ reqs[i].token = reqs[j].token

============================================================================
